---- MODULE Spec2Model ----
(***************************************************************************)
(* State-machine model of the purrfectplay storefront's reconciliation     *)
(* logic: the cart composable (useCart), the commerce client it calls      *)
(* (useVendure), the two checkout flows and the payment webhook.           *)
(*                                                                         *)
(* The browser is single-threaded: a handler runs from one await to the    *)
(* next without interruption.  Every remote call is therefore two steps:   *)
(* the platform handles the request (Remote... actions, which store the    *)
(* response in the calling task), and later the caller's continuation      *)
(* consumes the response (...After... actions).  Other handlers may run    *)
(* between the two.                                                        *)
(***************************************************************************)
EXTENDS Integers, Sequences, FiniteSets, TLC

\* ------------------------------------------------------------------ bounds
\* Number of cart operations that may be in flight together.
MaxTasks == 2
\* Largest quantity the platform accepts on one order line (its order limit).
MaxQty == 2
\* Number of order lines the platform creates in one behaviour.
MaxLineId == 2
\* Number of temporary local ids (Date.now() readings) in one behaviour.
MaxClock == 2
\* Number of cart operations invoked in one behaviour.
MaxOps == 3
\* Number of deliveries of the session-completed event in one behaviour.
MaxDeliveries == 2

\* ------------------------------------------------------- program constants
\* The catalog price of every variant, in cents.
UnitPrice == 1799
\* The rate of the only shipping method the store is seeded with.
ShippingRate == 0
\* maxAttempts of the settlement poll of completeOrder / processPayment.
MaxAttempts == 10

Tasks == 1..MaxTasks
Variants == {"V1"}

\* ------------------------------------------------------------------- state
VARIABLES
    \* --- commerce platform (shop API session of this browser)
    serverOrder,    \* the active order, or NoOrder
    nextLineId,     \* the platform's next order-line id
    \* --- useCart state
    cartItems,      \* useState('cart-items')
    cartTotal,      \* useState('cart-total')
    cartQuantity,   \* useState('cart-quantity')
    isCartOpen,     \* useState('cart-open')
    storage,        \* localStorage['purrfectplay-cart'], or NoStorage
    now,            \* number of Date.now() readings used for temporary ids
    started,        \* number of cart operations invoked so far
    tasks,          \* the cart operations in flight, one record per slot
    syncSnap,       \* history: the snapshot left by the last completed sync
    \* --- checkout (the modal of the product page, or the /checkout page)
    impl,           \* which checkout implementation runs: "modal" or "page"
    isCheckoutOpen, \* the modal is open / the checkout page is mounted
    checkoutStep,   \* checkoutStep / step: 1 contact, 2 address, 3 payment, 4 done
    isProcessing,   \* the processing flag of the submit buttons
    checkoutError,  \* checkoutError is non-empty
    errorText,      \* which text checkoutError holds
    customerFilled, \* first name, last name and email of the form are non-empty
    coPc,           \* position of the checkout handler in flight, or "idle"
    attempts,       \* attempts of the settlement poll
    orderCode,      \* orderCode holds the order's code
    elements,       \* useStripe elements: "none", "plain" or "secret"
    paymentElement, \* useStripe paymentElement is set
    addressElement, \* useStripe addressElement is set
    clientSecret,   \* useStripe clientSecret is set
    intentPending,  \* createPaymentElement awaits createStripePaymentIntent
    paid,           \* the payment processor reported the payment as succeeded
    paymentResult,  \* paymentResult of the last completeOrder / processPayment
    orderSettled,   \* the order was settled and left the session
    lastNav,        \* history: the last navigation, "none", "back" or "close"
    navFrom,        \* history: the step that navigation left
    navResets,      \* history: resets that navigation issued
    \* --- payment webhook (server route) and the order it reconciles
    webhookSecret,  \* STRIPE_WEBHOOK_SECRET is configured
    session,        \* the payment session of the event: what it carries
    adminOrder,     \* the order of the session's order code, as the Admin API has it
    deliveries      \* the deliveries of the session-completed event, one per slot

cartVars == <<serverOrder, nextLineId, cartItems, cartTotal, cartQuantity,
              isCartOpen, storage, now, started, tasks, syncSnap>>

checkoutVars == <<impl, customerFilled, isCheckoutOpen, checkoutStep, isProcessing, checkoutError, errorText,
                  coPc, attempts, orderCode, elements, paymentElement,
                  addressElement, clientSecret, intentPending, paid, paymentResult,
                  orderSettled, lastNav, navFrom, navResets>>

webhookVars == <<webhookSecret, session, adminOrder, deliveries>>

\* ------------------------------------------------------------------ values
NoOrder == [active |-> FALSE, state |-> "AddingItems", lines |-> <<>>,
            shippingSet |-> FALSE]
NoStorage == [present |-> FALSE, items |-> <<>>]
NoId == <<"none", 0>>
NoItem == [id |-> NoId, variantId |-> "none", quantity |-> 0, price |-> 0,
           lineTotal |-> 0]
NoResp == [kind |-> "none", msg |-> "none", order |-> NoOrder]
NoSnap == [valid |-> FALSE, adopted |-> FALSE, items |-> <<>>, total |-> 0,
           quantity |-> 0, lines |-> <<>>]

\* `temp-${Date.now()}`: a temporary local id.
TempId(t) == <<"temp", t>>
\* An id assigned by the platform to an order line.
LineId(n) == <<"line", n>>
IsTempId(id) == id[1] = "temp"

\* The messages the client tells apart: errorMessage.includes('AddingItems')
\* or .includes('may only be modified') is the "stuck" class.
IsStuckMessage(msg) == msg = "stuck"

\* ------------------------------------------------------------ pure helpers
RECURSIVE SumLineTotal(_)
\* items.reduce((sum, item) => sum + item.lineTotal, 0)
SumLineTotal(items) ==
    IF items = <<>> THEN 0 ELSE Head(items).lineTotal + SumLineTotal(Tail(items))

RECURSIVE SumQuantity(_)
\* items.reduce((sum, item) => sum + item.quantity, 0)
SumQuantity(items) ==
    IF items = <<>> THEN 0 ELSE Head(items).quantity + SumQuantity(Tail(items))

\* findIndex(item => item.variantId === variantId), 1-based, 0 when absent.
IndexOfVariant(items, v) ==
    IF \E i \in 1..Len(items) : items[i].variantId = v
    THEN CHOOSE i \in 1..Len(items) :
            /\ items[i].variantId = v
            /\ \A j \in 1..(i - 1) : items[j].variantId # v
    ELSE 0

\* findIndex(item => item.id === lineId), 1-based, 0 when absent.
IndexOfId(items, id) ==
    IF \E i \in 1..Len(items) : items[i].id = id
    THEN CHOOSE i \in 1..Len(items) :
            /\ items[i].id = id
            /\ \A j \in 1..(i - 1) : items[j].id # id
    ELSE 0

\* items.splice(i, 1)
Splice(items, i) ==
    [j \in 1..(Len(items) - 1) |-> IF j < i THEN items[j] ELSE items[j + 1]]

\* ------------------------------------------------- the platform's order
\* linePriceWithTax of an order line.
LinePriceWithTax(line) == UnitPrice * line.quantity

RECURSIVE SubTotalWithTax(_)
SubTotalWithTax(lines) ==
    IF lines = <<>> THEN 0
    ELSE LinePriceWithTax(Head(lines)) + SubTotalWithTax(Tail(lines))

\* Variant of TotalWithTax: the shipping method carries a charge.
TotalWithTaxPaidShipping(o) ==
    SubTotalWithTax(o.lines) + (IF o.shippingSet THEN 500 ELSE 0)

\* totalWithTax: the lines plus the shipping line once a method is set.
TotalWithTax(o) ==
    SubTotalWithTax(o.lines) + (IF o.shippingSet THEN ShippingRate ELSE 0)

\* totalQuantity of the order.
TotalQuantity(o) == SumQuantity(o.lines)

\* The cart item syncCart builds from one order line.
LineToItem(line) ==
    [id |-> LineId(line.id), variantId |-> line.variantId,
     quantity |-> line.quantity, price |-> UnitPrice,
     lineTotal |-> LinePriceWithTax(line)]

\* activeOrder.lines.map(line => ({...}))
AdoptItems(o) == [i \in 1..Len(o.lines) |-> LineToItem(o.lines[i])]

\* The platform's addItemToOrder on an order it accepts the item for: a new
\* order is created when there is none, the variant's line is merged into
\* when it exists, and a new line with id nid is appended otherwise.
OrderWithItem(o, v, q, nid) ==
    LET base == IF o.active THEN o
                ELSE [active |-> TRUE, state |-> "AddingItems", lines |-> <<>>,
                      shippingSet |-> FALSE]
        i == IndexOfVariant(base.lines, v)
    IN  IF i > 0
        THEN [base EXCEPT !.lines[i].quantity = @ + q]
        ELSE [base EXCEPT !.lines = Append(@, [id |-> nid, variantId |-> v,
                                               quantity |-> q])]

\* The quantity the order holds of variant v.
OrderQuantityOf(o, v) ==
    LET i == IndexOfVariant(o.lines, v)
    IN  IF i > 0 THEN o.lines[i].quantity ELSE 0

\* The index of the order line with platform id n, 0 when absent.
IndexOfLine(lines, n) ==
    IF \E i \in 1..Len(lines) : lines[i].id = n
    THEN CHOOSE i \in 1..Len(lines) : lines[i].id = n
    ELSE 0

\* ------------------------------------------------------- cart operations
\* One slot of the cart engine: an invocation of addToCart, updateQuantity,
\* removeFromCart or syncCart, its position (pc), its locals, the response it
\* is waiting for, and its history (calls it issued, their outcomes).
IdleTask ==
    [kind |-> "idle", pc |-> "idle", variantId |-> "none", quantity |-> 0,
     lineId |-> NoId, hasInfo |-> FALSE, resp |-> NoResp,
     removedItem |-> NoItem, restore |-> <<>>,
     after |-> "none", result |-> "none",
     calls |-> <<>>, outs |-> <<>>, alone |-> FALSE, startOrder |-> NoOrder,
     startSynced |-> FALSE, adopted |-> FALSE, resync |-> FALSE]

InFlight(tk) == tk.pc \notin {"idle", "done"}

\* The slots as the next handler finds them: an operation that has returned
\* leaves its slot.
Live == [u \in Tasks |-> IF tasks[u].pc = "done" THEN IdleTask ELSE tasks[u]]

\* The history of an operation is kept only while it runs alone.
Forgotten(tk) ==
    [tk EXCEPT !.calls = <<>>, !.outs = <<>>, !.alone = FALSE,
               !.startOrder = NoOrder, !.startSynced = FALSE,
               !.adopted = FALSE, !.resync = FALSE]

\* A new invocation takes the lowest slot that holds no operation in flight.
CanStart(t) ==
    /\ started < MaxOps
    /\ ~InFlight(tasks[t])
    /\ \A u \in Tasks : u < t => InFlight(tasks[u])

OthersQuiet(t) == \A u \in Tasks : u # t => ~InFlight(tasks[u])

\* The local snapshot agrees with the platform: the cart shows the order's
\* lines (nothing when there is no order) and the persisted record, when
\* there is one, holds the same items.
InSync ==
    /\ cartItems = AdoptItems(serverOrder)
    /\ storage.present => storage.items = cartItems

\* The slot's record at the start of an invocation.
NewTask(t, kind) ==
    IF OthersQuiet(t)
    THEN [IdleTask EXCEPT !.kind = kind, !.alone = TRUE,
                          !.startOrder = serverOrder, !.startSynced = InSync]
    ELSE [IdleTask EXCEPT !.kind = kind]

\* Another invocation or an outside event ends the solitude of every other
\* operation.
Disturbed(ts, t) ==
    [u \in Tasks |-> IF u = t THEN ts[u] ELSE Forgotten(ts[u])]

\* What the client tells apart in a response.
OutcomeOf(resp) ==
    IF resp.kind \in {"ok", "order"} THEN "ok"
    ELSE IF IsStuckMessage(resp.msg) THEN "stuck" ELSE "fail"

\* The response is consumed by the continuation.
Consumed(tk) ==
    IF tk.alone THEN [tk EXCEPT !.outs = Append(@, OutcomeOf(tk.resp))] ELSE tk

\* The next remote call is issued and awaited at position pc.
Issue(tk, pc, op) ==
    [tk EXCEPT !.pc = pc, !.resp = NoResp,
               !.calls = IF tk.alone THEN Append(@, op) ELSE @]

\* await syncCart(): the first getActiveOrder is issued; `after` is what the
\* caller returns once the sync is over.
BeginSync(tk, after) == [Issue(tk, "sync_get", "get") EXCEPT !.after = after]

\* The sync is over (its finally block ran) and the operation returns.
EndSync(tk, adopted) ==
    [tk EXCEPT !.pc = "done", !.resp = NoResp, !.restore = <<>>,
               !.adopted = tk.alone /\ adopted,
               !.result = IF tk.after = "none" THEN "returned" ELSE tk.after]

\* saveToStorage(): the items are written only when there are some.
SaveToStorage(items, st) ==
    IF Len(items) > 0 THEN [present |-> TRUE, items |-> items] ELSE st

\* loadFromStorage(): the stored items, [] when nothing is stored.
LoadFromStorage(st) == IF st.present THEN st.items ELSE <<>>

\* Variant of OptimisticAdd: the quantity of the variant's line is replaced
\* by the added quantity.
OptimisticAddReplacing(items, v, q, t) ==
    LET i == IndexOfVariant(items, v)
    IN  IF i > 0
        THEN [items EXCEPT ![i].quantity = q,
                           ![i].lineTotal = q * items[i].price]
        ELSE Append(items, [id |-> TempId(t), variantId |-> v, quantity |-> q,
                            price |-> UnitPrice, lineTotal |-> UnitPrice * q])

\* The optimistic update of addToCart: the variant's line grows by quantity,
\* or a line with a temporary id is appended.
OptimisticAdd(items, v, q, t) ==
    LET i == IndexOfVariant(items, v)
    IN  IF i > 0
        THEN [items EXCEPT ![i].quantity = @ + q,
                           ![i].lineTotal = (items[i].quantity + q) * items[i].price]
        ELSE Append(items, [id |-> TempId(t), variantId |-> v, quantity |-> q,
                            price |-> UnitPrice, lineTotal |-> UnitPrice * q])

\* Variant of OptimisticUpdate: a quantity of zero or less is written to the
\* line like any other quantity.
OptimisticUpdateKeepingLine(items, i, q) ==
    [items EXCEPT ![i].quantity = q, ![i].lineTotal = items[i].price * q]

\* The optimistic update of updateQuantity on the line at index i.
OptimisticUpdate(items, i, q) ==
    IF q <= 0 THEN Splice(items, i)
    ELSE [items EXCEPT ![i].quantity = q, ![i].lineTotal = items[i].price * q]

\* The history snapshot recorded when operation t returns: kept while a
\* repeated sync is being compared with it, taken anew when the operation
\* ended in a syncCart that ran undisturbed; `adopted` tells whether that sync
\* took over the platform's answer.
SnapOnReturn(t, tk, synced, adopted, items, total, qty) ==
    IF tk.resync THEN syncSnap
    ELSE IF synced /\ tk.alone
         THEN [valid |-> TRUE, adopted |-> adopted, items |-> items,
               total |-> total, quantity |-> qty, lines |-> serverOrder.lines]
         ELSE NoSnap

\* ------------------------------------------------------------ invocations
\* addToCart(variantId, quantity, productInfo?) up to its first await: the
\* optimistic update (only with productInfo), the totals, the persisted
\* record, the cart is opened, and the remote add is issued.
AddToCart(t, v, q, info) ==
    LET i == IndexOfVariant(cartItems, v)
        items == IF info THEN OptimisticAdd(cartItems, v, q, now + 1) ELSE cartItems
        tk == [NewTask(t, "add") EXCEPT !.variantId = v, !.quantity = q,
                                        !.hasInfo = info]
    IN  /\ CanStart(t)
        /\ started' = started + 1
        /\ info /\ i > 0 => cartItems[i].quantity + q <= MaxQty
        /\ info /\ i = 0 => now < MaxClock
        /\ cartItems' = items
        /\ cartTotal' = IF info THEN SumLineTotal(items) ELSE cartTotal
        /\ cartQuantity' = IF info THEN SumQuantity(items) ELSE cartQuantity
        /\ storage' = IF info THEN SaveToStorage(items, storage) ELSE storage
        /\ now' = IF info /\ i = 0 THEN now + 1 ELSE now
        /\ isCartOpen' = TRUE
        /\ tasks' = Disturbed([Live EXCEPT ![t] = Issue(tk, "add_first", "add")], t)
        /\ syncSnap' = NoSnap
        /\ UNCHANGED <<serverOrder, nextLineId>>

\* updateQuantity(lineId, quantity) up to its first await: the optimistic
\* update and the totals, then remove-line (quantity <= 0) or adjust-line is
\* issued with the lineId it was given.
UpdateQuantity(t, lineId, q) ==
    LET i == IndexOfId(cartItems, lineId)
        items == IF i > 0 THEN OptimisticUpdate(cartItems, i, q) ELSE cartItems
        tk == [NewTask(t, "update") EXCEPT !.lineId = lineId, !.quantity = q]
    IN  /\ CanStart(t)
        /\ started' = started + 1
        /\ cartItems' = items
        /\ cartTotal' = IF i > 0 THEN SumLineTotal(items) ELSE cartTotal
        /\ cartQuantity' = IF i > 0 THEN SumQuantity(items) ELSE cartQuantity
        /\ tasks' = Disturbed([Live EXCEPT ![t] =
                        Issue(tk, "upd_remote", IF q <= 0 THEN "remove" ELSE "adjust")], t)
        /\ syncSnap' = NoSnap
        /\ UNCHANGED <<serverOrder, nextLineId, storage, now, isCartOpen>>

\* removeFromCart(lineId) up to its first await: the line is spliced out and
\* kept in removedItem, the totals are recomputed, remove-line is issued.
RemoveFromCart(t, lineId) ==
    LET i == IndexOfId(cartItems, lineId)
        items == IF i > 0 THEN Splice(cartItems, i) ELSE cartItems
        tk == [NewTask(t, "remove") EXCEPT
                  !.lineId = lineId,
                  !.removedItem = IF i > 0 THEN cartItems[i] ELSE NoItem]
    IN  /\ CanStart(t)
        /\ started' = started + 1
        /\ cartItems' = items
        /\ cartTotal' = IF i > 0 THEN SumLineTotal(items) ELSE cartTotal
        /\ cartQuantity' = IF i > 0 THEN SumQuantity(items) ELSE cartQuantity
        /\ tasks' = Disturbed([Live EXCEPT ![t] = Issue(tk, "rem_remote", "remove")], t)
        /\ syncSnap' = NoSnap
        /\ UNCHANGED <<serverOrder, nextLineId, storage, now, isCartOpen>>

\* syncCart() called on its own (on mount, after an order): getActiveOrder is
\* issued.  It is a repeated sync when it directly follows a completed one.
SyncCart(t) ==
    LET again == syncSnap.valid /\ OthersQuiet(t)
        tk == [NewTask(t, "sync") EXCEPT !.resync = again]
    IN  /\ CanStart(t)
        /\ started' = started + 1
        /\ tasks' = Disturbed([Live EXCEPT ![t] = BeginSync(tk, "none")], t)
        /\ syncSnap' = IF again THEN syncSnap ELSE NoSnap
        /\ UNCHANGED <<serverOrder, nextLineId, cartItems, cartTotal, cartQuantity,
                       storage, now, isCartOpen>>

\* The quantity buttons and the trash button of the cart drawer call
\* updateQuantity(item.id, item.quantity -+ 1) and removeFromCart(item.id)
\* for an item the cart shows.
CartButtons(t) ==
    \E i \in 1..Len(cartItems) :
        \/ \E q \in {cartItems[i].quantity - 1, cartItems[i].quantity + 1} :
              /\ q <= MaxQty
              /\ UpdateQuantity(t, cartItems[i].id, q)
        \/ RemoveFromCart(t, cartItems[i].id)

\* ------------------------------------------------- the platform's answers
\* useVendure.query: a payload with errors is thrown as Error(message), a
\* union result comes back as Order ("ok") or ErrorResult ("error").
Ok == [kind |-> "ok", msg |-> "none", order |-> NoOrder]
ErrorResult(msg) == [kind |-> "error", msg |-> msg, order |-> NoOrder]
Thrown(msg) == [kind |-> "throw", msg |-> msg, order |-> NoOrder]

\* The ways a mutation is refused: an ErrorResult or a thrown error; the
\* wrong-state message only while the order is not in AddingItems.
Refusals(o) ==
    {ErrorResult("other"), Thrown("other")}
        \cup (IF o.active /\ o.state # "AddingItems"
              THEN {ErrorResult("stuck"), Thrown("stuck")} ELSE {})

\* The ways the reset transition is refused; a transition error names the
\* target state ('... to "AddingItems"').
ResetRefusals == {ErrorResult("stuck"), Thrown("stuck"), Thrown("other")}

Awaiting(t, pcs) == tasks[t].pc \in pcs /\ tasks[t].resp = NoResp

\* addItemToOrder(v, q) answered by r: accepted while the order is in
\* AddingItems (or there is none yet) and within the order limit; refused
\* otherwise, or for a reason of the platform's own.
PlatformAddsItem(v, q, r) ==
    LET fresh == IndexOfVariant(serverOrder.lines, v) = 0
    IN  \/ /\ r = Ok
           /\ ~serverOrder.active \/ serverOrder.state = "AddingItems"
           /\ OrderQuantityOf(serverOrder, v) + q <= MaxQty
           /\ fresh => nextLineId <= MaxLineId
           /\ serverOrder' = OrderWithItem(serverOrder, v, q, nextLineId)
           /\ nextLineId' = IF fresh THEN nextLineId + 1 ELSE nextLineId
        \/ /\ r \in Refusals(serverOrder)
           /\ UNCHANGED <<serverOrder, nextLineId>>

\* The order line an adjust-line / remove-line request names, as the
\* platform sees it: its index, 0 for a temporary or stale id.
RequestedLine(lineId) ==
    IF IsTempId(lineId) THEN 0 ELSE IndexOfLine(serverOrder.lines, lineId[2])

\* adjustOrderLine(lineId, q) answered by r.
PlatformAdjustsLine(lineId, q, r) ==
    LET i == RequestedLine(lineId)
    IN  \/ /\ r = Ok
           /\ i > 0
           /\ serverOrder.state = "AddingItems"
           /\ serverOrder' = [serverOrder EXCEPT !.lines[i].quantity = q]
        \/ /\ r \in Refusals(serverOrder)
           /\ UNCHANGED serverOrder

\* removeOrderLine(lineId) answered by r.
PlatformRemovesLine(lineId, r) ==
    LET i == RequestedLine(lineId)
    IN  \/ /\ r = Ok
           /\ i > 0
           /\ serverOrder.state = "AddingItems"
           /\ serverOrder' = [serverOrder EXCEPT !.lines = Splice(@, i)]
        \/ /\ r \in Refusals(serverOrder)
           /\ UNCHANGED serverOrder

\* transitionOrderToState(state: "AddingItems") answered by r: the order
\* becomes modifiable again unless it is settled, or the transition is
\* refused.
PlatformResetsOrder(r) ==
    \/ /\ r = Ok
       /\ ~(serverOrder.active /\ serverOrder.state = "PaymentSettled")
       /\ serverOrder' = IF serverOrder.active
                         THEN [serverOrder EXCEPT !.state = "AddingItems"]
                         ELSE serverOrder
    \/ /\ r \in ResetRefusals
       /\ UNCHANGED serverOrder

Responses == {Ok} \cup {ErrorResult(m) : m \in {"stuck", "other"}}
                  \cup {Thrown(m) : m \in {"stuck", "other"}}

\* ------------------------------------------- addToCart after each await
\* Entering the catch block of addToCart with message msg: a wrong-state
\* message starts the reset-and-retry of the catch block, anything else
\* rolls back through syncCart.
CatchOfAdd(tk, msg) ==
    IF IsStuckMessage(msg)
    THEN Issue(tk, "add_reset_c", "reset")
    ELSE BeginSync(tk, "failure")

\* After the first vendureAddToCart: success syncs; an ErrorResult with a
\* wrong-state message resets and retries; other ErrorResults roll back; a
\* thrown error enters the catch block.
AfterFirstAdd(tk) ==
    LET r == tk.resp
        c == Consumed(tk)
    IN  IF r.kind = "ok" THEN BeginSync(c, "success")
        ELSE IF r.kind = "error"
        THEN IF IsStuckMessage(r.msg)
             THEN Issue(c, "add_reset", "reset")
             ELSE BeginSync(c, "failure")
        ELSE CatchOfAdd(c, r.msg)

\* After resetOrderToAddingItems in the try block: its result is not looked
\* at and the add is retried; a thrown error enters the catch block.
AfterReset(tk) ==
    LET r == tk.resp
        c == Consumed(tk)
    IN  IF r.kind = "throw" THEN CatchOfAdd(c, r.msg)
        ELSE Issue(c, "add_retry", "add")

\* Variant of AfterRetry: a successful retry is reported as a failure.
AfterRetryUnreported(tk) ==
    LET r == tk.resp
        c == Consumed(tk)
    IN  IF r.kind = "throw" THEN CatchOfAdd(c, r.msg) ELSE BeginSync(c, "failure")

\* After the retry in the try block: success syncs, an ErrorResult rolls
\* back, a thrown error enters the catch block.
AfterRetry(tk) ==
    LET r == tk.resp
        c == Consumed(tk)
    IN  IF r.kind = "ok" THEN BeginSync(c, "success")
        ELSE IF r.kind = "error" THEN BeginSync(c, "failure")
        ELSE CatchOfAdd(c, r.msg)

\* After resetOrderToAddingItems in the catch block: the add is retried; a
\* thrown error is caught by the inner try and rolls back.
AfterResetInCatch(tk) ==
    LET r == tk.resp
        c == Consumed(tk)
    IN  IF r.kind = "throw" THEN BeginSync(c, "failure")
        ELSE Issue(c, "add_retry_c", "add")

\* After the retry in the catch block: success syncs, anything else rolls
\* back.
AfterRetryInCatch(tk) ==
    LET r == tk.resp
        c == Consumed(tk)
    IN  IF r.kind = "ok" THEN BeginSync(c, "success") ELSE BeginSync(c, "failure")

\* A vendureAddToCart of addToCart (the first attempt or a retry) is answered
\* and addToCart continues to its next await.
AddItemAnswered(t) ==
    LET tk == tasks[t]
    IN  /\ Awaiting(t, {"add_first", "add_retry", "add_retry_c"})
        /\ \E r \in Responses :
              /\ PlatformAddsItem(tk.variantId, tk.quantity, r)
              /\ tasks' = [Live EXCEPT ![t] =
                    LET got == [tk EXCEPT !.resp = r]
                    IN  CASE tk.pc = "add_first" -> AfterFirstAdd(got)
                          [] tk.pc = "add_retry" -> AfterRetry(got)
                          [] tk.pc = "add_retry_c" -> AfterRetryInCatch(got)]
        /\ UNCHANGED <<cartItems, cartTotal, cartQuantity, storage, now, started,
                       isCartOpen, syncSnap>>

\* A resetOrderToAddingItems of addToCart is answered and addToCart
\* continues to its next await.
ResetAnswered(t) ==
    LET tk == tasks[t]
    IN  /\ Awaiting(t, {"add_reset", "add_reset_c"})
        /\ \E r \in Responses :
              /\ PlatformResetsOrder(r)
              /\ tasks' = [Live EXCEPT ![t] =
                    LET got == [tk EXCEPT !.resp = r]
                    IN  IF tk.pc = "add_reset" THEN AfterReset(got)
                        ELSE AfterResetInCatch(got)]
        /\ UNCHANGED <<nextLineId, cartItems, cartTotal, cartQuantity, storage,
                       now, started, isCartOpen, syncSnap>>

\* ------------------------------------- updateQuantity / removeFromCart
\* The remote call of updateQuantity (remove-line for quantity <= 0,
\* adjust-line otherwise) is answered: its result is not looked at; success
\* and failure both end in syncCart.
UpdateAnswered(t) ==
    LET tk == tasks[t]
    IN  /\ Awaiting(t, {"upd_remote"})
        /\ \E r \in Responses :
              /\ IF tk.quantity <= 0 THEN PlatformRemovesLine(tk.lineId, r)
                 ELSE PlatformAdjustsLine(tk.lineId, tk.quantity, r)
              /\ tasks' = [Live EXCEPT ![t] =
                    BeginSync(Consumed([tk EXCEPT !.resp = r]), "none")]
        /\ UNCHANGED <<nextLineId, cartItems, cartTotal, cartQuantity, storage,
                       now, started, isCartOpen, syncSnap>>

\* The rollback of removeFromCart's catch block: the removed item is pushed
\* back at the end of the list.
PushBack(items, removed) ==
    IF removed # NoItem THEN Append(items, removed) ELSE items

\* The remote call of removeFromCart is answered: a result (Order or
\* ErrorResult) ends in syncCart; a thrown error pushes the removed item
\* back and recomputes the totals, without a sync.
RemoveAnswered(t) ==
    LET tk == tasks[t]
        items == PushBack(cartItems, tk.removedItem)
        back == tk.removedItem # NoItem
    IN  /\ Awaiting(t, {"rem_remote"})
        /\ \E r \in Responses :
              LET c == Consumed([tk EXCEPT !.resp = r])
                  done == [c EXCEPT !.pc = "done", !.resp = NoResp,
                                    !.result = "returned"]
              IN  /\ PlatformRemovesLine(tk.lineId, r)
                  /\ IF r.kind = "throw"
                     THEN /\ cartItems' = items
                          /\ cartTotal' = IF back THEN SumLineTotal(items) ELSE cartTotal
                          /\ cartQuantity' = IF back THEN SumQuantity(items)
                                             ELSE cartQuantity
                          /\ tasks' = [Live EXCEPT ![t] = done]
                          /\ syncSnap' = SnapOnReturn(t, done, FALSE, FALSE, items,
                                                      cartTotal', cartQuantity')
                     ELSE /\ tasks' = [Live EXCEPT ![t] = BeginSync(c, "none")]
                          /\ UNCHANGED <<cartItems, cartTotal, cartQuantity, syncSnap>>
        /\ UNCHANGED <<nextLineId, storage, now, started, isCartOpen>>

\* activeOrder query of syncCart: the order of the session (null when there
\* is none) or a failed request is on its way back to the caller.
GetActiveOrderAnswered(t) ==
    /\ Awaiting(t, {"sync_get", "sync_refetch"})
    /\ \E r \in {[kind |-> "order", msg |-> "none", order |-> serverOrder],
                 Thrown("other")} :
          tasks' = [Live EXCEPT ![t].resp = r]
    /\ UNCHANGED <<serverOrder, nextLineId, cartItems, cartTotal, cartQuantity,
                   storage, now, started, isCartOpen, syncSnap>>

\* ------------------------------------------------ syncCart after each await
\* The items syncCart replays when there is no active order: the persisted
\* record when it holds items, the in-memory items otherwise.
ItemsToRestore(st, items) ==
    LET stored == LoadFromStorage(st)
    IN  IF Len(stored) > 0 THEN stored ELSE items

\* Variant of AdoptOrder: the order's lines are appended to the items the
\* cart already shows.
AdoptOrderAppending(t, c, o) ==
    LET items == cartItems \o AdoptItems(o)
        done == EndSync(c, TRUE)
    IN  /\ cartItems' = items
        /\ cartTotal' = SumLineTotal(items)
        /\ cartQuantity' = SumQuantity(items)
        /\ storage' = SaveToStorage(items, storage)
        /\ tasks' = [Live EXCEPT ![t] = done]
        /\ syncSnap' = SnapOnReturn(t, done, TRUE, TRUE, items, cartTotal', cartQuantity')

\* The local snapshot is replaced by the order's lines and totals, the
\* persisted record is written (when there are items), and the sync returns.
AdoptOrder(t, c, o) ==
    LET items == AdoptItems(o)
        done == EndSync(c, TRUE)
    IN  /\ cartItems' = items
        /\ cartTotal' = TotalWithTax(o)
        /\ cartQuantity' = TotalQuantity(o)
        /\ storage' = SaveToStorage(items, storage)
        /\ tasks' = [Live EXCEPT ![t] = done]
        /\ syncSnap' = SnapOnReturn(t, done, TRUE, TRUE, items, cartTotal', cartQuantity')

\* The sync returns without touching the snapshot.
LeaveAsIs(t, c) ==
    LET done == EndSync(c, FALSE)
    IN  /\ tasks' = [Live EXCEPT ![t] = done]
        /\ syncSnap' = SnapOnReturn(t, done, TRUE, FALSE, cartItems, cartTotal, cartQuantity)
        /\ UNCHANGED <<cartItems, cartTotal, cartQuantity, storage>>

\* Variant of SyncAfterGet: with no active order and nothing to restore the
\* sync does not settle on the empty cart but fetches the order once more.
SyncAfterGetFetchingAgain(t) ==
    LET tk == tasks[t]
        c == Consumed(tk)
        r == tk.resp
        toRestore == ItemsToRestore(storage, cartItems)
    IN  /\ tk.pc = "sync_get"
        /\ r # NoResp
        /\ IF r.kind = "throw" THEN LeaveAsIs(t, c)
           ELSE IF r.order.active THEN AdoptOrder(t, c, r.order)
           ELSE /\ tasks' = [Live EXCEPT ![t] =
                        IF Len(toRestore) > 0
                        THEN Issue([c EXCEPT !.restore = toRestore], "sync_replay", "replay")
                        ELSE Issue(c, "sync_refetch", "get")]
                /\ UNCHANGED <<cartItems, cartTotal, cartQuantity, storage, syncSnap>>
        /\ UNCHANGED <<serverOrder, nextLineId, now, started, isCartOpen>>

\* After the first getActiveOrder of syncCart.
SyncAfterGet(t) ==
    LET tk == tasks[t]
        c == Consumed(tk)
        r == tk.resp
        toRestore == ItemsToRestore(storage, cartItems)
        done == EndSync(c, TRUE)
    IN  /\ tk.pc = "sync_get"
        /\ r # NoResp
        /\ IF r.kind = "throw" THEN LeaveAsIs(t, c)
           ELSE IF r.order.active THEN AdoptOrder(t, c, r.order)
           ELSE IF Len(toRestore) > 0
           THEN /\ tasks' = [Live EXCEPT ![t] =
                        Issue([c EXCEPT !.restore = toRestore], "sync_replay", "replay")]
                /\ UNCHANGED <<cartItems, cartTotal, cartQuantity, storage, syncSnap>>
           ELSE /\ cartItems' = <<>>
                /\ cartTotal' = 0
                /\ cartQuantity' = 0
                /\ storage' = NoStorage
                /\ tasks' = [Live EXCEPT ![t] = done]
                /\ syncSnap' = SnapOnReturn(t, done, TRUE, TRUE, <<>>, 0, 0)
        /\ UNCHANGED <<serverOrder, nextLineId, now, started, isCartOpen>>

\* Variant of ReplayAnswered: a failed add ends the restore loop.
ReplayAnsweredAborting(t) ==
    LET tk == tasks[t]
        item == Head(tk.restore)
    IN  /\ Awaiting(t, {"sync_replay"})
        /\ \E r \in Responses :
              LET c == [Consumed([tk EXCEPT !.resp = r]) EXCEPT
                            !.restore = Tail(tk.restore)]
              IN  /\ PlatformAddsItem(item.variantId, item.quantity, r)
                  /\ tasks' = [Live EXCEPT ![t] =
                        IF Len(c.restore) > 0 /\ r.kind = "ok"
                        THEN Issue(c, "sync_replay", "replay")
                        ELSE Issue(c, "sync_refetch", "get")]
        /\ UNCHANGED <<cartItems, cartTotal, cartQuantity, storage, now, started,
                       isCartOpen, syncSnap>>

\* One replayed add of the restore loop is answered: its outcome is not
\* looked at (a thrown error is logged); the next item is replayed, or the
\* order is fetched again when none is left.
ReplayAnswered(t) ==
    LET tk == tasks[t]
        item == Head(tk.restore)
    IN  /\ Awaiting(t, {"sync_replay"})
        /\ \E r \in Responses :
              LET c == [Consumed([tk EXCEPT !.resp = r]) EXCEPT
                            !.restore = Tail(tk.restore)]
              IN  /\ PlatformAddsItem(item.variantId, item.quantity, r)
                  /\ tasks' = [Live EXCEPT ![t] =
                        IF Len(c.restore) > 0 THEN Issue(c, "sync_replay", "replay")
                        ELSE Issue(c, "sync_refetch", "get")]
        /\ UNCHANGED <<cartItems, cartTotal, cartQuantity, storage, now, started,
                       isCartOpen, syncSnap>>

\* After the getActiveOrder that follows the restore loop: the restored
\* order is adopted; with no order (or a failed fetch) nothing is changed.
SyncAfterRefetch(t) ==
    LET tk == tasks[t]
        c == Consumed(tk)
        r == tk.resp
    IN  /\ tk.pc = "sync_refetch"
        /\ r # NoResp
        /\ IF r.kind # "throw" /\ r.order.active THEN AdoptOrder(t, c, r.order)
           ELSE LeaveAsIs(t, c)
        /\ UNCHANGED <<serverOrder, nextLineId, now, started, isCartOpen>>

\* ------------------------------------------------------- outside events
\* The session is detached from its order (credential lost or expired): the
\* next getActiveOrder finds no active order.
SessionLost ==
    /\ serverOrder.active
    /\ serverOrder' = NoOrder
    /\ tasks' = [u \in Tasks |-> Forgotten(Live[u])]
    /\ syncSnap' = NoSnap
    /\ UNCHANGED <<nextLineId, cartItems, cartTotal, cartQuantity, storage, now, started,
                   isCartOpen>>

\* A checkout that is then abandoned: setOrderShippingMethod and
\* transitionOrderToState("ArrangingPayment") have been applied to the order.
CheckoutAbandoned ==
    /\ serverOrder.active
    /\ serverOrder.state = "AddingItems"
    /\ Len(serverOrder.lines) > 0
    /\ serverOrder' = [serverOrder EXCEPT !.state = "ArrangingPayment",
                                          !.shippingSet = TRUE]
    /\ tasks' = [u \in Tasks |-> Forgotten(Live[u])]
    /\ syncSnap' = NoSnap
    /\ UNCHANGED <<nextLineId, cartItems, cartTotal, cartQuantity, storage, now, started,
                   isCartOpen>>

\* ---------------------------------------------------------------- checkout
\* What a checkout handler leaves alone in the cart engine.
cartAside == <<nextLineId, cartItems, cartTotal, cartQuantity, isCartOpen, now,
               started, syncSnap>>

\* What a checkout handler leaves alone in the payment widgets.
widgets == <<elements, paymentElement, addressElement, clientSecret, intentPending>>

\* History of the navigations.
navigation == <<lastNav, navFrom, navResets>>

Impls == {"modal", "page"}

\* Answers of a remote call of the checkout: an Order, an ErrorResult, or a
\* thrown error.
CheckoutAnswers == {"ok", "error", "throw"}

Idle == coPc = "idle"
AtStep(n) == isCheckoutOpen /\ checkoutStep = n

\* Variant of ShownMessage: the handler shows its own fixed text.
ShownFallback(a) == "fallback"

\* The text a catch block shows for a failed remote call: the message of the
\* ErrorResult it threw on, or the message of the error the client threw
\* (error instanceof Error ? error.message : fixed text).
ShownMessage(a) == IF a = "error" THEN "remote" ELSE "thrown"

\* Variant of SubmitFailed: the processing flag is not released.
SubmitFailedStillProcessing ==
    /\ checkoutError' = TRUE
    /\ isProcessing' = TRUE
    /\ coPc' = "idle"

\* The catch and finally blocks of a submit handler: the error is shown, the
\* processing flag released.
SubmitFailed ==
    /\ checkoutError' = TRUE
    /\ isProcessing' = FALSE
    /\ coPc' = "idle"

\* createAddressElement(): the address element is created on the elements
\* instance, which is created when there is none.
CreateAddressElement ==
    /\ addressElement' = TRUE
    /\ elements' = IF elements = "none" THEN "plain" ELSE elements

\* destroyPaymentElement(): the payment element, the elements instance and
\* the client secret are dropped.
DestroyPaymentElement ==
    /\ paymentElement' = FALSE
    /\ elements' = "none"
    /\ clientSecret' = FALSE

\* submitCustomerInfo / saveCustomer up to the await, with the three fields
\* of the form filled or not: the modal's button is disabled while a field is
\* empty, the page refuses empty fields; otherwise setCustomerForOrder is
\* issued.
SubmitCustomerInfo(filled) ==
    /\ AtStep(1) /\ Idle /\ ~isProcessing
    /\ impl = "modal" => filled
    /\ customerFilled' = filled
    /\ IF impl = "page" /\ ~filled
       THEN /\ checkoutError' = TRUE /\ errorText' = "fill_fields"
            /\ UNCHANGED <<isProcessing, coPc>>
       ELSE /\ isProcessing' = TRUE
            /\ checkoutError' = FALSE /\ errorText' = "none"
            /\ coPc' = "customer"
    /\ UNCHANGED <<impl, paymentResult, isCheckoutOpen, checkoutStep, attempts, orderCode, paid,
                   orderSettled, widgets, navigation, cartAside, serverOrder,
                   storage, tasks>>

\* setCustomerForOrder is answered: on an Order the step becomes 2 and the
\* address element is created; otherwise the error is shown.
CustomerAnswered(a) ==
    /\ coPc = "customer"
    /\ IF a = "ok"
       THEN /\ checkoutStep' = 2
            /\ CreateAddressElement
            /\ isProcessing' = FALSE
            /\ coPc' = "idle"
            /\ UNCHANGED <<checkoutError, errorText>>
       ELSE /\ SubmitFailed /\ errorText' = ShownMessage(a)
            /\ UNCHANGED <<checkoutStep, addressElement, elements>>
    /\ UNCHANGED <<impl, customerFilled, paymentResult, isCheckoutOpen, attempts, orderCode, paid, orderSettled,
                   paymentElement, clientSecret, intentPending, navigation,
                   cartAside, serverOrder, storage, tasks>>

\* The Back button of step 2: checkoutStep = 1; destroyAddressElement().  On
\* the page the button is disabled while the processing flag is set.
BackFromShipping ==
    /\ AtStep(2)
    /\ impl = "page" => ~isProcessing
    /\ checkoutStep' = 1
    /\ addressElement' = FALSE
    /\ UNCHANGED <<impl, customerFilled, paymentResult, isCheckoutOpen, isProcessing, checkoutError, errorText, coPc, attempts,
                   orderCode, paid, orderSettled, elements, paymentElement,
                   clientSecret, intentPending, navigation, cartAside, serverOrder,
                   storage, tasks>>

\* Variant of SubmitShippingInfo: setShippingAddress is issued whatever the
\* address element returns.
SubmitShippingInfoUnchecked(complete) ==
    /\ AtStep(2) /\ Idle /\ ~isProcessing
    /\ isProcessing' = TRUE
    /\ checkoutError' = FALSE /\ errorText' = "none"
    /\ coPc' = "ship_address"
    /\ UNCHANGED <<impl, customerFilled, paymentResult, isCheckoutOpen, checkoutStep,
                   attempts, orderCode, paid, orderSettled, widgets, navigation,
                   cartAside, serverOrder, storage, tasks>>

\* submitShippingInfo / saveShipping up to the first remote call: without a
\* complete address it fails locally; otherwise setShippingAddress is issued.
SubmitShippingInfo(complete) ==
    /\ AtStep(2) /\ Idle /\ ~isProcessing
    /\ IF addressElement /\ complete
       THEN /\ isProcessing' = TRUE
            /\ checkoutError' = FALSE /\ errorText' = "none"
            /\ coPc' = "ship_address"
       ELSE /\ checkoutError' = TRUE /\ errorText' = "address_incomplete"
            /\ UNCHANGED <<isProcessing, coPc>>
    /\ UNCHANGED <<impl, customerFilled, paymentResult, isCheckoutOpen, checkoutStep, attempts, orderCode, paid,
                   orderSettled, widgets, navigation, cartAside, serverOrder,
                   storage, tasks>>

\* setShippingAddress is answered: on an Order the address element is
\* destroyed and the eligible shipping methods are fetched.
ShippingAddressAnswered(a) ==
    /\ coPc = "ship_address"
    /\ IF a = "ok"
       THEN /\ addressElement' = FALSE
            /\ coPc' = "ship_methods"
            /\ UNCHANGED <<checkoutError, errorText, isProcessing>>
       ELSE /\ SubmitFailed /\ errorText' = ShownMessage(a)
            /\ UNCHANGED addressElement
    /\ UNCHANGED <<impl, customerFilled, paymentResult, isCheckoutOpen, checkoutStep, attempts, orderCode, paid,
                   orderSettled, elements, paymentElement, clientSecret,
                   intentPending, navigation, cartAside, serverOrder, storage, tasks>>

\* getShippingMethods is answered: with a method in the list the first one
\* is set on the order, with an empty list the transition is issued at once.
ShippingMethodsAnswered(a, some) ==
    /\ coPc = "ship_methods"
    /\ IF a = "throw" THEN SubmitFailed /\ errorText' = ShownMessage(a)
       ELSE /\ coPc' = IF some THEN "ship_method" ELSE "ship_transition"
            /\ UNCHANGED <<checkoutError, errorText, isProcessing>>
    /\ UNCHANGED <<impl, customerFilled, paymentResult, isCheckoutOpen, checkoutStep, attempts, orderCode, paid,
                   orderSettled, widgets, navigation, cartAside, serverOrder,
                   storage, tasks>>

\* setShippingMethod is answered: on an Order the order carries the shipping
\* line and the transition to ArrangingPayment is issued.
ShippingMethodAnswered(a) ==
    /\ coPc = "ship_method"
    /\ IF a = "ok"
       THEN /\ serverOrder' = [serverOrder EXCEPT !.shippingSet = TRUE]
            /\ coPc' = "ship_transition"
            /\ UNCHANGED <<checkoutError, errorText, isProcessing>>
       ELSE /\ SubmitFailed /\ errorText' = ShownMessage(a)
            /\ UNCHANGED serverOrder
    /\ UNCHANGED <<impl, customerFilled, paymentResult, isCheckoutOpen, checkoutStep, attempts, orderCode, paid,
                   orderSettled, widgets, navigation, cartAside, storage, tasks>>

\* transitionToArrangingPayment is answered: on an Order the order code is
\* kept, the step becomes 3 and createPaymentElement starts by asking for the
\* payment intent.
TransitionAnswered(a) ==
    /\ coPc = "ship_transition"
    /\ IF a = "ok" /\ serverOrder.active /\ serverOrder.state = "AddingItems"
       THEN /\ serverOrder' = [serverOrder EXCEPT !.state = "ArrangingPayment"]
            /\ orderCode' = TRUE
            /\ checkoutStep' = 3
            /\ intentPending' = TRUE
            /\ isProcessing' = FALSE
            /\ coPc' = "idle"
            /\ UNCHANGED <<checkoutError, errorText>>
       ELSE /\ a # "ok"
            /\ SubmitFailed /\ errorText' = ShownMessage(a)
            /\ UNCHANGED <<serverOrder, orderCode, checkoutStep, intentPending>>
    /\ UNCHANGED <<impl, customerFilled, paymentResult, isCheckoutOpen, attempts, paid, orderSettled, elements,
                   paymentElement, addressElement, clientSecret, navigation,
                   cartAside, storage, tasks>>

\* createStripePaymentIntent is answered inside createPaymentElement: with
\* the secret the elements instance and the payment element are created; a
\* thrown error leaves everything as it is.
PaymentIntentAnswered(a) ==
    /\ intentPending
    /\ intentPending' = FALSE
    /\ IF a = "ok"
       THEN /\ clientSecret' = TRUE
            /\ elements' = "secret"
            /\ paymentElement' = TRUE
       ELSE UNCHANGED <<clientSecret, elements, paymentElement>>
    /\ UNCHANGED <<impl, customerFilled, paymentResult, isCheckoutOpen, checkoutStep, isProcessing, checkoutError, errorText,
                   coPc, attempts, orderCode, paid, orderSettled, addressElement,
                   navigation, cartAside, serverOrder, storage, tasks>>

\* completeOrder / processPayment up to the await: without an elements
\* instance processPaymentWithElement refuses at once; otherwise
\* confirmPayment is issued.
CompleteOrder ==
    /\ AtStep(3) /\ Idle /\ ~isProcessing
    /\ IF elements = "none"
       THEN /\ checkoutError' = TRUE /\ errorText' = "stripe"
            /\ paymentResult' = "failed"
            /\ UNCHANGED <<isProcessing, coPc>>
       ELSE /\ isProcessing' = TRUE
            /\ checkoutError' = FALSE /\ errorText' = "none"
            /\ paymentResult' = "none"
            /\ coPc' = "confirm"
    /\ UNCHANGED <<impl, customerFilled, isCheckoutOpen, checkoutStep, attempts, orderCode, paid,
                   orderSettled, widgets, navigation, cartAside, serverOrder,
                   storage, tasks>>

\* Variant of ConfirmAnswered: a redirect starts the settlement poll like an
\* immediate success.
ConfirmAnsweredPollingOnRedirect(outcome) ==
    /\ coPc = "confirm"
    /\ paymentResult' = outcome
    /\ \/ /\ outcome = "failed"
          /\ SubmitFailed /\ errorText' = "stripe"
          /\ UNCHANGED <<attempts, paid>>
       \/ /\ outcome \in {"redirect", "succeeded"}
          /\ elements = "secret"
          /\ paid' = (outcome = "succeeded")
          /\ attempts' = 0
          /\ coPc' = "poll"
          /\ UNCHANGED <<checkoutError, errorText, isProcessing>>
    /\ UNCHANGED <<impl, customerFilled, isCheckoutOpen, checkoutStep, orderCode, orderSettled,
                   widgets, navigation, cartAside, serverOrder, storage, tasks>>

\* confirmPayment is answered: a failure is shown; a redirect returns; an
\* immediate success starts the settlement poll.
ConfirmAnswered(outcome) ==
    /\ coPc = "confirm"
    /\ paymentResult' = outcome
    /\ \/ /\ outcome = "failed"
          /\ SubmitFailed /\ errorText' = "stripe"
          /\ UNCHANGED <<attempts, paid>>
       \/ /\ outcome = "redirect"
          /\ elements = "secret"
          /\ isProcessing' = FALSE
          /\ coPc' = "idle"
          /\ UNCHANGED <<checkoutError, errorText, attempts, paid>>
       \/ /\ outcome = "succeeded"
          /\ elements = "secret"
          /\ paid' = TRUE
          /\ attempts' = 0
          /\ coPc' = "poll"
          /\ UNCHANGED <<checkoutError, errorText, isProcessing>>
    /\ UNCHANGED <<impl, customerFilled, isCheckoutOpen, checkoutStep, orderCode, orderSettled,
                   widgets, navigation, cartAside, serverOrder, storage, tasks>>

\* The payment processor's event is reconciled: the paid order is settled.
\* Whether a settled order stops being the session's active order is decided
\* by the platform's configuration: it leaves the session, or the session
\* keeps showing it in its settled state.
OrderSettled(leaves) ==
    /\ paid /\ ~orderSettled
    /\ serverOrder.active
    /\ serverOrder.state = "ArrangingPayment"
    /\ serverOrder' = IF leaves THEN NoOrder
                      ELSE [serverOrder EXCEPT !.state = "PaymentSettled"]
    /\ orderSettled' = TRUE
    /\ UNCHANGED <<impl, customerFilled, paymentResult, isCheckoutOpen, checkoutStep, isProcessing, checkoutError, errorText,
                   coPc, attempts, orderCode, paid, widgets, navigation, cartAside,
                   storage, tasks>>

\* The poll is over in the modal: the payment element is destroyed, the step
\* becomes 4, the persisted cart is cleared and syncCart is awaited.
ConfirmedInModal ==
    /\ DestroyPaymentElement
    /\ checkoutStep' = 4
    /\ storage' = NoStorage
    /\ tasks' = [Live EXCEPT ![1] = BeginSync(NewTask(1, "sync"), "none")]
    /\ coPc' = "final_sync"
    /\ UNCHANGED <<isCheckoutOpen, isProcessing, checkoutError, errorText>>

\* The poll is over on the page: the persisted cart is cleared, the payment
\* element destroyed, and the confirmation page replaces the checkout page.
ConfirmedOnPage ==
    /\ DestroyPaymentElement
    /\ storage' = NoStorage
    /\ isCheckoutOpen' = FALSE
    /\ isProcessing' = FALSE
    /\ coPc' = "idle"
    /\ UNCHANGED <<checkoutStep, checkoutError, errorText, tasks>>

\* The order states the modal's poll takes for a settled order.
SettledStates == {"PaymentSettled", "PaymentAuthorized"}

\* The test that ends the settlement poll early: the modal stops on no active
\* order or an active order in a settled state, the page on no active order.
PollSeesCompletion ==
    IF impl = "modal"
    THEN ~serverOrder.active \/ serverOrder.state \in SettledStates
    ELSE ~serverOrder.active

\* One getActiveOrder of the settlement poll is answered.  The modal stops
\* on no order or a settled state, the page on no order; both stop after
\* maxAttempts fetches; a thrown error is shown as a failed payment.
PollAnswered(a) ==
    LET settled == PollSeesCompletion
        last == attempts + 1 >= MaxAttempts
    IN  /\ coPc = "poll"
        /\ ~InFlight(tasks[1])
        /\ IF a = "throw"
           THEN /\ SubmitFailed /\ errorText' = ShownMessage(a)
                /\ UNCHANGED <<attempts, checkoutStep, isCheckoutOpen, storage, tasks,
                               elements, paymentElement, clientSecret>>
           ELSE IF settled \/ last
           THEN /\ attempts' = IF settled THEN attempts ELSE attempts + 1
                /\ IF impl = "modal" THEN ConfirmedInModal ELSE ConfirmedOnPage
           ELSE /\ attempts' = attempts + 1
                /\ UNCHANGED <<coPc, checkoutError, errorText, isProcessing, checkoutStep,
                               isCheckoutOpen, storage, tasks, elements,
                               paymentElement, clientSecret>>
        /\ UNCHANGED <<impl, customerFilled, paymentResult, orderCode, paid, orderSettled, addressElement,
                       intentPending, navigation, cartAside, serverOrder>>

\* The syncCart awaited at the end of completeOrder has returned: the
\* processing flag is released.
FinalSyncReturned ==
    /\ coPc = "final_sync"
    /\ tasks[1].pc = "done"
    /\ coPc' = "idle"
    /\ isProcessing' = FALSE
    /\ tasks' = Live
    /\ UNCHANGED <<impl, customerFilled, paymentResult, isCheckoutOpen, checkoutStep, checkoutError, errorText, attempts,
                   orderCode, paid, orderSettled, widgets, navigation, cartAside,
                   serverOrder, storage>>

\* goBackFromPayment (modal) up to the await: resetOrderToAddingItems is
\* issued.
GoBackFromPayment ==
    /\ impl = "modal"
    /\ AtStep(3) /\ Idle
    /\ coPc' = "back_reset"
    /\ lastNav' = "back"
    /\ navFrom' = checkoutStep
    /\ navResets' = 1
    /\ UNCHANGED <<impl, customerFilled, paymentResult, isCheckoutOpen, checkoutStep, isProcessing, checkoutError, errorText,
                   attempts, orderCode, paid, orderSettled, widgets, cartAside,
                   serverOrder, storage, tasks>>

\* The reset of goBackFromPayment is answered: unless it threw, the payment
\* element is destroyed; then the step becomes 2 and the address element is
\* created again.
BackResetAnswered(r) ==
    /\ coPc = "back_reset"
    /\ PlatformResetsOrder(r)
    /\ IF r.kind = "throw"
       THEN /\ CreateAddressElement
            /\ UNCHANGED <<paymentElement, clientSecret>>
       ELSE /\ paymentElement' = FALSE
            /\ clientSecret' = FALSE
            /\ elements' = "plain"
            /\ addressElement' = TRUE
    /\ checkoutStep' = 2
    /\ coPc' = "idle"
    /\ UNCHANGED <<impl, customerFilled, paymentResult, isCheckoutOpen, isProcessing, checkoutError, errorText, attempts,
                   orderCode, paid, orderSettled, intentPending, navigation,
                   cartAside, storage, tasks>>

\* The Back button of step 3 on the page: step = 2; destroyPaymentElement();
\* createAddressElement().
PageBackFromPayment ==
    /\ impl = "page"
    /\ AtStep(3) /\ ~isProcessing
    /\ checkoutStep' = 2
    /\ paymentElement' = FALSE
    /\ clientSecret' = FALSE
    /\ elements' = "plain"
    /\ addressElement' = TRUE
    /\ lastNav' = "back"
    /\ navFrom' = checkoutStep
    /\ navResets' = 0
    /\ UNCHANGED <<impl, customerFilled, paymentResult, isCheckoutOpen, isProcessing, checkoutError, errorText, coPc, attempts,
                   orderCode, paid, orderSettled, intentPending, cartAside,
                   serverOrder, storage, tasks>>

\* closeCheckout (modal) up to the await: at step 3 or later the reset is
\* issued; before that the modal closes at once.
CloseCheckout ==
    /\ impl = "modal"
    /\ isCheckoutOpen /\ Idle
    /\ lastNav' = "close"
    /\ navFrom' = checkoutStep
    /\ IF checkoutStep >= 3
       THEN /\ coPc' = "close_reset"
            /\ navResets' = 1
            /\ UNCHANGED <<isCheckoutOpen, checkoutError, errorText>>
       ELSE /\ isCheckoutOpen' = FALSE
            /\ checkoutError' = FALSE /\ errorText' = "none"
            /\ navResets' = 0
            /\ UNCHANGED coPc
    /\ UNCHANGED <<impl, customerFilled, paymentResult, checkoutStep, isProcessing, attempts, orderCode, paid,
                   orderSettled, widgets, cartAside, serverOrder, storage, tasks>>

\* The reset of closeCheckout is answered: unless it threw, the payment
\* element is destroyed; then the modal closes.
CloseResetAnswered(r) ==
    /\ coPc = "close_reset"
    /\ PlatformResetsOrder(r)
    /\ IF r.kind = "throw"
       THEN UNCHANGED <<paymentElement, elements, clientSecret>>
       ELSE DestroyPaymentElement
    /\ isCheckoutOpen' = FALSE
    /\ checkoutError' = FALSE /\ errorText' = "none"
    /\ coPc' = "idle"
    /\ UNCHANGED <<impl, customerFilled, paymentResult, checkoutStep, isProcessing, attempts, orderCode, paid,
                   orderSettled, addressElement, intentPending, navigation,
                   cartAside, storage, tasks>>

\* The "Back to Shop" link of the checkout page: the page is left as it is.
LeavePage ==
    /\ impl = "page"
    /\ isCheckoutOpen
    /\ isCheckoutOpen' = FALSE
    /\ lastNav' = "close"
    /\ navFrom' = checkoutStep
    /\ navResets' = 0
    /\ UNCHANGED <<impl, customerFilled, paymentResult, checkoutStep, isProcessing, checkoutError, errorText, coPc, attempts,
                   orderCode, paid, orderSettled, widgets, cartAside, serverOrder,
                   storage, tasks>>

\* The "Continue Shopping" button of the confirmation step (modal):
\* isCheckoutOpen = false; closeCart().
ContinueShopping ==
    /\ impl = "modal"
    /\ AtStep(4) /\ Idle
    /\ isCheckoutOpen' = FALSE
    /\ isCartOpen' = FALSE
    /\ UNCHANGED <<impl, customerFilled, paymentResult, checkoutStep, isProcessing, checkoutError, errorText, coPc, attempts,
                   orderCode, paid, orderSettled, widgets, navigation, nextLineId,
                   cartItems, cartTotal, cartQuantity, now, started, syncSnap,
                   serverOrder, storage, tasks>>

\* ------------------------------------------- hosted checkout session
RECURSIVE AmountOf(_)
\* The amount of the session's line items: unit_amount = item.price and
\* quantity = item.quantity for every cart item.
AmountOf(items) ==
    IF items = <<>> THEN 0
    ELSE Head(items).price * Head(items).quantity + AmountOf(Tail(items))

\* proceedToCheckout up to its first await: nothing happens on an empty
\* cart; otherwise the processing flag is set and the active order is
\* fetched.
ProceedToCheckout ==
    /\ session.pc \in {"none", "failed"}
    /\ cartItems # <<>>
    /\ session' = [session EXCEPT !.pc = "fetch"]
    /\ isProcessing' = TRUE
    /\ checkoutError' = FALSE /\ errorText' = "none"
    /\ UNCHANGED <<impl, customerFilled, isCheckoutOpen, checkoutStep, coPc, attempts,
                   orderCode, widgets, paid, paymentResult, orderSettled, navigation,
                   cartVars, webhookSecret, adminOrder, deliveries>>

\* orderResult.activeOrder?.code || '': whether the metadata gets a code.
OrderCodeOf(o) == o.active

\* The fetch of proceedToCheckout is answered and the session is asked for
\* with the cart items as they are now and the code of the order just
\* fetched: the endpoint refuses an empty item list and creates the session
\* otherwise, whatever the code; the browser is sent to the session.  A
\* thrown fetch or a refused creation is shown as an error.
SessionRequested(a) ==
    /\ session.pc = "fetch"
    /\ IF a = "ok" /\ cartItems # <<>>
       THEN /\ session' = [session EXCEPT !.pc = "created",
                                          !.hasCode = OrderCodeOf(serverOrder),
                                          !.amount = AmountOf(cartItems)]
            /\ UNCHANGED <<isProcessing, checkoutError, errorText>>
       ELSE /\ session' = [session EXCEPT !.pc = "failed"]
            /\ isProcessing' = FALSE
            /\ checkoutError' = TRUE /\ errorText' = "thrown"
    /\ UNCHANGED <<impl, customerFilled, isCheckoutOpen, checkoutStep, coPc, attempts,
                   orderCode, widgets, paid, paymentResult, orderSettled, navigation,
                   cartVars, webhookSecret, adminOrder, deliveries>>

\* ----------------------------------------------------------------- webhook
Deliveries == 1..MaxDeliveries

\* One delivery of the event: the handler's position, the order state the
\* lookup returned, the payment submissions it made and the transaction id
\* they carried, the answer of the endpoint, whether it began after every
\* earlier delivery had been answered, and the signature it arrived with.
NoDelivery ==
    [pc |-> "idle", sawState |-> "none", submitted |-> 0, txn |-> "none",
     response |-> "none", afterOthers |-> FALSE, threw |-> FALSE,
     signature |-> "none"]

\* The endpoint's answer once the handler is over: {received: true}.
Received(dl) == [dl EXCEPT !.pc = "over", !.response = "received"]

\* A failed fetch (or unreadable body) of handleCheckoutComplete is rethrown
\* by its catch block: the endpoint answers with a server error.
Rethrown(dl) == [dl EXCEPT !.pc = "over", !.response = "error", !.threw = TRUE]

\* A request arrives: without a signature header, or with one that does not
\* verify against the configured secret, it is answered 400; without a
\* configured secret the body is parsed unverified.  An event without an
\* order code in its metadata is logged and acknowledged; otherwise the
\* handler logs in to the Admin API.
Deliver(d, signature) ==
    LET dl == deliveries[d]
        began == [NoDelivery EXCEPT
                     !.signature = signature,
                     !.afterOthers = \A e \in Deliveries :
                                        e # d => deliveries[e].pc \in {"idle", "over"}]
    IN  /\ dl.pc = "idle"
        /\ \A e \in Deliveries : e < d => deliveries[e].pc # "idle"
        /\ deliveries' = [deliveries EXCEPT ![d] =
              IF signature = "missing" \/ (webhookSecret /\ signature = "invalid")
              THEN [began EXCEPT !.pc = "over", !.response = "bad_request"]
              ELSE IF ~session.hasCode THEN Received(began)
              ELSE [began EXCEPT !.pc = "login"]]
        /\ UNCHANGED <<webhookSecret, session, adminOrder>>

\* The Admin API login is answered: without a token, or with an error, the
\* handler returns; otherwise the order is looked up by its code.
LoginAnswered(d, a) ==
    LET dl == deliveries[d]
    IN  /\ dl.pc = "login"
        /\ deliveries' = [deliveries EXCEPT ![d] =
              CASE a = "ok" -> [dl EXCEPT !.pc = "lookup"]
                [] a = "error" -> Received(dl)
                [] a = "throw" -> Rethrown(dl)]
        /\ UNCHANGED <<webhookSecret, session, adminOrder>>

\* Variant of NeedsSettlement: every order found is taken through the
\* payment.
NeedsSettlementAlways(state) == state = state

\* order.state === 'AddingItems' || order.state === 'ArrangingPayment'.
NeedsSettlement(state) == state \in {"AddingItems", "ArrangingPayment"}

\* Variant of LookupAnswered: the handler goes on without testing that the
\* lookup returned an order.
LookupAnsweredUnchecked(d, a) ==
    LET dl == deliveries[d]
        seen == [dl EXCEPT !.sawState = adminOrder.state]
    IN  /\ dl.pc = "lookup"
        /\ deliveries' = [deliveries EXCEPT ![d] =
              IF a = "throw" THEN Rethrown(dl)
              ELSE IF adminOrder.exists /\ ~NeedsSettlement(adminOrder.state)
                   THEN Received(seen)
              ELSE IF adminOrder.state = "ArrangingPayment"
                   THEN [seen EXCEPT !.pc = "payment"]
                   ELSE [seen EXCEPT !.pc = "customer"]]
        /\ UNCHANGED <<webhookSecret, session, adminOrder>>

\* The lookup is answered: no order with that code ends the handler; an order
\* that still needs settlement goes through the AddingItems path or straight
\* to the payment; any other state ends the handler.
LookupAnswered(d, a) ==
    LET dl == deliveries[d]
        seen == [dl EXCEPT !.sawState = adminOrder.state]
    IN  /\ dl.pc = "lookup"
        /\ deliveries' = [deliveries EXCEPT ![d] =
              IF a = "throw" THEN Rethrown(dl)
              ELSE IF ~adminOrder.exists THEN Received(dl)
              ELSE IF ~NeedsSettlement(adminOrder.state) THEN Received(seen)
              ELSE IF adminOrder.state = "AddingItems"
                   THEN [seen EXCEPT !.pc = "customer"]
                   ELSE [seen EXCEPT !.pc = "payment"]]
        /\ UNCHANGED <<webhookSecret, session, adminOrder>>

\* The calls of the AddingItems path.
PrepareSteps == {"customer", "address", "methods", "method", "transition"}

\* The call that follows the one at pc: the shipping address is set only
\* when the session carries one, a shipping method only when the platform
\* listed one (some).
NextPrepareStep(pc, some) ==
    CASE pc = "customer" -> IF session.hasShipping THEN "address" ELSE "methods"
      [] pc = "address" -> "methods"
      [] pc = "methods" -> IF some THEN "method" ELSE "transition"
      [] pc = "method" -> "transition"
      [] pc = "transition" -> "payment"

\* One call of the AddingItems path is answered: its result is logged and
\* not looked at; the accepted transition puts the order in ArrangingPayment.
PrepareAnswered(d, a, some) ==
    LET dl == deliveries[d]
        moves == /\ dl.pc = "transition"
                 /\ a = "ok"
                 /\ adminOrder.state = "AddingItems"
    IN  /\ dl.pc \in PrepareSteps
        /\ deliveries' = [deliveries EXCEPT ![d] =
              IF a = "throw" THEN Rethrown(dl)
              ELSE [dl EXCEPT !.pc = NextPrepareStep(dl.pc, some)]]
        /\ adminOrder' = IF moves THEN [adminOrder EXCEPT !.state = "ArrangingPayment"]
                         ELSE adminOrder
        /\ UNCHANGED <<webhookSecret, session>>

\* Variant of TransactionId: the payment is always keyed by the session id.
TransactionIdOfSession(s) == "session_id"

\* transactionId: session.payment_intent || session.id.
TransactionId(s) == IF s.hasIntent THEN "payment_intent" ELSE "session_id"

\* addManualPaymentToOrder is answered: the platform records a settled
\* payment for an order in ArrangingPayment and settles the order, and
\* refuses with ManualPaymentStateError otherwise; the handler logs either
\* answer.  A lost answer is rethrown, whether or not the payment was made.
PaymentAnswered(d, a) ==
    LET dl == deliveries[d]
        sent == [dl EXCEPT !.submitted = @ + 1, !.txn = TransactionId(session)]
        accepted == adminOrder.state = "ArrangingPayment"
    IN  /\ dl.pc = "payment"
        /\ \/ /\ a \in {"ok", "lost"}
              /\ adminOrder' = IF accepted
                               THEN [adminOrder EXCEPT !.state = "PaymentSettled",
                                                       !.payments = @ + 1]
                               ELSE adminOrder
              /\ deliveries' = [deliveries EXCEPT ![d] =
                    IF a = "ok" THEN Received(sent) ELSE Rethrown(sent)]
           \/ /\ a = "throw"
              /\ deliveries' = [deliveries EXCEPT ![d] = Rethrown(dl)]
              /\ UNCHANGED adminOrder
        /\ UNCHANGED <<webhookSecret, session>>

\* --------------------------------------------------------- specification
CartInit ==
    /\ serverOrder = NoOrder
    /\ nextLineId = 1
    /\ cartItems = <<>>
    /\ cartTotal = 0
    /\ cartQuantity = 0
    /\ isCartOpen = FALSE
    /\ storage = NoStorage
    /\ now = 0
    /\ started = 0
    /\ tasks = [t \in Tasks |-> IdleTask]
    /\ syncSnap = NoSnap

\* No checkout has been started.
CheckoutClosed ==
    /\ impl = "modal"
    /\ isCheckoutOpen = FALSE
    /\ checkoutStep = 1
    /\ isProcessing = FALSE
    /\ checkoutError = FALSE
    /\ errorText = "none"
    /\ customerFilled = FALSE
    /\ coPc = "idle"
    /\ attempts = 0
    /\ orderCode = FALSE
    /\ elements = "none"
    /\ paymentElement = FALSE
    /\ addressElement = FALSE
    /\ clientSecret = FALSE
    /\ intentPending = FALSE
    /\ paid = FALSE
    /\ paymentResult = "none"
    /\ orderSettled = FALSE
    /\ lastNav = "none"
    /\ navFrom = 0
    /\ navResets = 0

\* No payment session has been created.
NoSession ==
    [pc |-> "none", hasCode |-> FALSE, hasShipping |-> TRUE, hasIntent |-> TRUE,
     amount |-> 0]

\* No order carries the code of the session's metadata.
NoAdminOrder == [exists |-> FALSE, state |-> "none", payments |-> 0, total |-> 0]

\* The totals the order may have when the event arrives: the one unit the
\* session was created for, or two units after one more was added.
OrderTotals == {UnitPrice, 2 * UnitPrice}

\* No event has been delivered; the session was created for one unit; the
\* order of the session is absent, still being filled, or waiting for its
\* payment.
WebhookInit ==
    /\ webhookSecret \in BOOLEAN
    /\ session \in [pc : {"created"}, hasCode : BOOLEAN, hasShipping : BOOLEAN,
                     hasIntent : BOOLEAN, amount : {UnitPrice}]
    /\ adminOrder \in {NoAdminOrder}
            \cup [exists : {TRUE}, state : {"AddingItems", "ArrangingPayment"},
                  payments : {0}, total : OrderTotals]
    /\ deliveries = [d \in Deliveries |-> NoDelivery]

\* The webhook has nothing to do.
WebhookQuiet ==
    /\ webhookSecret = TRUE
    /\ session = NoSession
    /\ adminOrder = NoAdminOrder
    /\ deliveries = [d \in Deliveries |-> NoDelivery]

Init == CartInit /\ CheckoutClosed /\ WebhookQuiet

otherVars == <<checkoutVars, webhookVars>>

\* The cart engine: its operations, the platform's answers and the outside
\* events, in any interleaving.
Next ==
    \/ \E t \in Tasks, v \in Variants, q \in 1..MaxQty :
          AddToCart(t, v, q, TRUE) /\ UNCHANGED otherVars
    \/ \E t \in Tasks : CartButtons(t) /\ UNCHANGED otherVars
    \/ \E t \in Tasks : SyncCart(t) /\ UNCHANGED otherVars
    \/ \E t \in Tasks : AddItemAnswered(t) /\ UNCHANGED otherVars
    \/ \E t \in Tasks : ResetAnswered(t) /\ UNCHANGED otherVars
    \/ \E t \in Tasks : UpdateAnswered(t) /\ UNCHANGED otherVars
    \/ \E t \in Tasks : RemoveAnswered(t) /\ UNCHANGED otherVars
    \/ \E t \in Tasks : GetActiveOrderAnswered(t) /\ UNCHANGED otherVars
    \/ \E t \in Tasks : SyncAfterGet(t) /\ UNCHANGED otherVars
    \/ \E t \in Tasks : ReplayAnswered(t) /\ UNCHANGED otherVars
    \/ \E t \in Tasks : SyncAfterRefetch(t) /\ UNCHANGED otherVars
    \/ SessionLost /\ UNCHANGED otherVars
    \/ CheckoutAbandoned /\ UNCHANGED otherVars

vars == <<cartVars, checkoutVars, webhookVars>>

Spec == Init /\ [][Next]_vars

\* A checkout (of either implementation) has been opened at its first step on
\* a synced cart of one line.
CheckoutInit ==
    LET order == OrderWithItem(NoOrder, "V1", 1, 1)
    IN  /\ serverOrder = order
        /\ nextLineId = 2
        /\ cartItems = AdoptItems(order)
        /\ cartTotal = TotalWithTax(order)
        /\ cartQuantity = TotalQuantity(order)
        /\ isCartOpen = TRUE
        /\ storage = [present |-> TRUE, items |-> AdoptItems(order)]
        /\ now = 0
        /\ started = 0
        /\ tasks = [t \in Tasks |-> IdleTask]
        /\ syncSnap = NoSnap
        /\ impl \in Impls
        /\ isCheckoutOpen = TRUE
        /\ checkoutStep = 1
        /\ isProcessing = FALSE
        /\ checkoutError = FALSE
        /\ errorText = "none"
        /\ customerFilled = FALSE
        /\ coPc = "idle"
        /\ attempts = 0
        /\ orderCode = FALSE
        /\ elements = "none"
        /\ paymentElement = FALSE
        /\ addressElement = FALSE
        /\ clientSecret = FALSE
        /\ intentPending = FALSE
        /\ paid = FALSE
        /\ paymentResult = "none"
        /\ orderSettled = FALSE
        /\ lastNav = "none"
        /\ navFrom = 0
        /\ navResets = 0
        /\ WebhookQuiet

\* The checkout: its handlers, the answers to their remote calls, the
\* settlement of the paid order, and the syncCart the modal ends with.
NextCheckout ==
    \/ \E filled \in BOOLEAN : SubmitCustomerInfo(filled) /\ UNCHANGED webhookVars
    \/ \E a \in CheckoutAnswers : CustomerAnswered(a) /\ UNCHANGED webhookVars
    \/ BackFromShipping /\ UNCHANGED webhookVars
    \/ \E complete \in BOOLEAN : SubmitShippingInfo(complete) /\ UNCHANGED webhookVars
    \/ \E a \in CheckoutAnswers : ShippingAddressAnswered(a) /\ UNCHANGED webhookVars
    \/ \E a \in {"ok", "throw"}, some \in BOOLEAN : ShippingMethodsAnswered(a, some) /\ UNCHANGED webhookVars
    \/ \E a \in CheckoutAnswers : ShippingMethodAnswered(a) /\ UNCHANGED webhookVars
    \/ \E a \in CheckoutAnswers : TransitionAnswered(a) /\ UNCHANGED webhookVars
    \/ \E a \in {"ok", "throw"} : PaymentIntentAnswered(a) /\ UNCHANGED webhookVars
    \/ CompleteOrder /\ UNCHANGED webhookVars
    \/ \E outcome \in {"failed", "redirect", "succeeded"} : ConfirmAnswered(outcome) /\ UNCHANGED webhookVars
    \/ \E leaves \in BOOLEAN : OrderSettled(leaves) /\ UNCHANGED webhookVars
    \/ \E a \in {"ok", "throw"} : PollAnswered(a) /\ UNCHANGED webhookVars
    \/ FinalSyncReturned /\ UNCHANGED webhookVars
    \/ GoBackFromPayment /\ UNCHANGED webhookVars
    \/ \E r \in {Ok} \cup ResetRefusals : BackResetAnswered(r) /\ UNCHANGED webhookVars
    \/ PageBackFromPayment /\ UNCHANGED webhookVars
    \/ CloseCheckout /\ UNCHANGED webhookVars
    \/ \E r \in {Ok} \cup ResetRefusals : CloseResetAnswered(r) /\ UNCHANGED webhookVars
    \/ LeavePage /\ UNCHANGED webhookVars
    \/ ContinueShopping /\ UNCHANGED webhookVars
    \/ \E t \in Tasks : GetActiveOrderAnswered(t) /\ UNCHANGED checkoutVars /\ UNCHANGED webhookVars
    \/ \E t \in Tasks : SyncAfterGet(t) /\ UNCHANGED checkoutVars /\ UNCHANGED webhookVars
    \/ \E t \in Tasks : ReplayAnswered(t) /\ UNCHANGED checkoutVars /\ UNCHANGED webhookVars
    \/ \E t \in Tasks : SyncAfterRefetch(t) /\ UNCHANGED checkoutVars /\ UNCHANGED webhookVars

SpecCheckout == CheckoutInit /\ [][NextCheckout]_vars

\* The webhook: deliveries of the session-completed event and the Admin
\* API's answers, in any interleaving.
NextWebhook ==
    \/ \E d \in Deliveries, signature \in {"valid", "invalid", "missing"} :
          Deliver(d, signature) /\ UNCHANGED <<cartVars, checkoutVars>>
    \/ \E d \in Deliveries, a \in {"ok", "error", "throw"} :
          LoginAnswered(d, a) /\ UNCHANGED <<cartVars, checkoutVars>>
    \/ \E d \in Deliveries, a \in {"ok", "throw"} :
          LookupAnswered(d, a) /\ UNCHANGED <<cartVars, checkoutVars>>
    \/ \E d \in Deliveries, a \in {"ok", "error", "throw"}, some \in BOOLEAN :
          PrepareAnswered(d, a, some) /\ UNCHANGED <<cartVars, checkoutVars>>
    \/ \E d \in Deliveries, a \in {"ok", "lost", "throw"} :
          PaymentAnswered(d, a) /\ UNCHANGED <<cartVars, checkoutVars>>

\* The storefront is at rest while the webhook runs.
InitWebhook == CartInit /\ CheckoutClosed /\ WebhookInit

SpecWebhook == InitWebhook /\ [][NextWebhook]_vars

\* The cart and the hosted checkout: items are added, the cart is synced, the
\* session of the browser may be lost, and the Checkout button of the cart is
\* pressed, in any interleaving.
NextSession ==
    \/ \E t \in Tasks, v \in Variants, q \in 1..MaxQty :
          AddToCart(t, v, q, TRUE) /\ UNCHANGED otherVars
    \/ \E t \in Tasks : SyncCart(t) /\ UNCHANGED otherVars
    \/ \E t \in Tasks : AddItemAnswered(t) /\ UNCHANGED otherVars
    \/ \E t \in Tasks : GetActiveOrderAnswered(t) /\ UNCHANGED otherVars
    \/ \E t \in Tasks : SyncAfterGet(t) /\ UNCHANGED otherVars
    \/ \E t \in Tasks : ReplayAnswered(t) /\ UNCHANGED otherVars
    \/ \E t \in Tasks : SyncAfterRefetch(t) /\ UNCHANGED otherVars
    \/ SessionLost /\ UNCHANGED otherVars
    \/ ProceedToCheckout
    \/ \E a \in {"ok", "throw"} : SessionRequested(a)

SpecSession == Init /\ [][NextSession]_vars

\* The variants of the catalog a persisted cart may hold.
StoredVariants == {"V1", "V2"}

\* The orders a session may have lost: one line, or two lines of different
\* variants, each with a quantity the platform accepts.
LostOrders ==
    LET line(n, v, q) == [id |-> n, variantId |-> v, quantity |-> q]
        one == {<<line(1, v, q)>> : v \in StoredVariants, q \in 1..MaxQty}
        two == {<<line(1, v, q), line(2, w, r)>> :
                    v \in StoredVariants, w \in StoredVariants,
                    q \in 1..MaxQty, r \in 1..MaxQty}
    IN  {[active |-> TRUE, state |-> "AddingItems", lines |-> ls,
          shippingSet |-> FALSE] :
            ls \in {l \in one \cup two : Len(l) = 2 => l[1].variantId # l[2].variantId}}

\* The session has lost its order (the credential expired): the persisted
\* record holds the items the last sync adopted; the snapshot still holds
\* them, or is empty after a reload.
RestoreInit ==
    /\ serverOrder = NoOrder
    /\ nextLineId = 1
    /\ \E o \in LostOrders, reloaded \in BOOLEAN :
          /\ storage = [present |-> TRUE, items |-> AdoptItems(o)]
          /\ cartItems = IF reloaded THEN <<>> ELSE AdoptItems(o)
          /\ cartTotal = IF reloaded THEN 0 ELSE TotalWithTax(o)
          /\ cartQuantity = IF reloaded THEN 0 ELSE TotalQuantity(o)
    /\ isCartOpen = FALSE
    /\ now = 0
    /\ started = 0
    /\ tasks = [t \in Tasks |-> IdleTask]
    /\ syncSnap = NoSnap
    /\ CheckoutClosed
    /\ WebhookQuiet

\* syncCart on a lost session: the fetches, the replayed adds and their
\* answers, in any interleaving of the syncs in flight.
NextRestore ==
    \/ \E t \in Tasks : SyncCart(t) /\ UNCHANGED otherVars
    \/ \E t \in Tasks : GetActiveOrderAnswered(t) /\ UNCHANGED otherVars
    \/ \E t \in Tasks : SyncAfterGet(t) /\ UNCHANGED otherVars
    \/ \E t \in Tasks : ReplayAnswered(t) /\ UNCHANGED otherVars
    \/ \E t \in Tasks : SyncAfterRefetch(t) /\ UNCHANGED otherVars

SpecRestore == RestoreInit /\ [][NextRestore]_vars

\* ------------------------------------------------------------ properties
RECURSIVE CountOf(_, _)
CountOf(seq, x) ==
    IF seq = <<>> THEN 0
    ELSE (IF Head(seq) = x THEN 1 ELSE 0) + CountOf(Tail(seq), x)

\* An operation that has returned after running with nothing else in flight
\* and no outside event.
ReturnedAlone(tk) == tk.pc = "done" /\ tk.alone

RemoteFailed(tk) ==
    \/ tk.kind = "add" /\ tk.result = "failure"
    \/ tk.kind \in {"update", "remove"} /\ Len(tk.outs) > 0 /\ tk.outs[1] # "ok"

\* Every fetch of the order the operation made was answered with the order.
FetchesSucceeded(tk) ==
    \A i \in 1..Len(tk.outs) : tk.calls[i] = "get" => tk.outs[i] = "ok"

\* C2: when a mutating call whose remote mutation failed has returned (the
\* fetches of its rollback having succeeded), the cart shows what a direct
\* sync against the unmodified order shows (the order's lines, nothing more)
\* and the order is the one the call started from.
C2_RollbackMatchesDirectSync ==
    \A t \in Tasks :
        LET tk == tasks[t]
        IN  ReturnedAlone(tk) /\ tk.startSynced /\ RemoteFailed(tk)
                /\ FetchesSucceeded(tk)
                => /\ cartItems = AdoptItems(tk.startOrder)
                   /\ serverOrder = tk.startOrder

\* No line is duplicated, in the cart or on the order.
NoDuplicateLine ==
    /\ \A i, j \in 1..Len(cartItems) :
          i # j => cartItems[i].variantId # cartItems[j].variantId
    /\ \A i, j \in 1..Len(serverOrder.lines) :
          i # j => serverOrder.lines[i].variantId # serverOrder.lines[j].variantId

\* The state is the one the previous sync left.
SameAsAfterFirstSync ==
    /\ cartItems = syncSnap.items
    /\ cartTotal = syncSnap.total
    /\ cartQuantity = syncSnap.quantity
    /\ serverOrder.lines = syncSnap.lines

StuckOnceThenAdded(tk) ==
    /\ tk.kind = "add"
    /\ CountOf(tk.calls, "add") = 2
    /\ tk.outs[1] = "stuck"
    /\ \E j \in 2..Len(tk.outs) : tk.calls[j] = "add" /\ tk.outs[j] = "ok"

\* C4: an addToCart whose add-item call failed once with a wrong-state message
\* and succeeded on retry issued a reset between the two attempts and
\* returned success; the order holds the added quantity once, and so does the
\* cart when the final sync adopted the order.
C4_StuckStateRecovery ==
    \A t \in Tasks :
        LET tk == tasks[t]
        IN  ReturnedAlone(tk) /\ StuckOnceThenAdded(tk)
                => /\ \E i, j \in 1..Len(tk.calls) :
                          /\ i < j
                          /\ tk.calls[i] = "reset"
                          /\ tk.calls[j] = "add"
                   /\ tk.result = "success"
                   /\ OrderQuantityOf(serverOrder, tk.variantId)
                        = OrderQuantityOf(tk.startOrder, tk.variantId) + tk.quantity
                   /\ tk.adopted
                        => /\ cartItems = AdoptItems(serverOrder)
                           /\ NoDuplicateLine

\* C4 witness: such an addToCart has returned, once after an ErrorResult and
\* once after a thrown error, and its final sync adopted the order.
C4_Witness ==
    \E t \in Tasks :
        /\ ReturnedAlone(tasks[t])
        /\ StuckOnceThenAdded(tasks[t])
        /\ tasks[t].adopted
        /\ tasks[t].result = "success"

\* C8: no adjust-line or remove-line request in flight names a temporary
\* local id.
C8_NoTempIdSentRemotely ==
    \A t \in Tasks :
        tasks[t].pc \in {"upd_remote", "rem_remote"} => ~IsTempId(tasks[t].lineId)

\* C9: cartItems holds at most one item per variantId.
C9_OneItemPerVariant ==
    \A i, j \in 1..Len(cartItems) :
        i # j => cartItems[i].variantId # cartItems[j].variantId

\* C10: one addToCart issues the reset at most once and the add-item mutation
\* at most twice.
C10_OneResetOneRetry ==
    \A t \in Tasks :
        tasks[t].kind = "add" /\ tasks[t].alone
            => /\ CountOf(tasks[t].calls, "reset") <= 1
               /\ CountOf(tasks[t].calls, "add") <= 2

\* C5: whenever a back-navigation from the Payment step has brought the step
\* back to Shipping, that navigation has issued exactly one reset, in the
\* modal and on the /checkout page.
C5_BackIssuesOneReset ==
    lastNav = "back" /\ navFrom = 3 /\ checkoutStep = 2 => navResets = 1

\* C6: once closeCheckout, called at the Payment step or later, is over (no
\* payment made, no widget creation pending), the order is not in
\* ArrangingPayment and neither a payment element nor a client secret
\* remains, whatever the reset answered.
C6_CloseLeavesNothingBehind ==
    (/\ impl = "modal" /\ lastNav = "close" /\ navFrom >= 3
     /\ ~isCheckoutOpen /\ ~intentPending /\ ~paid)
        => /\ ~(serverOrder.active /\ serverOrder.state = "ArrangingPayment")
           /\ ~paymentElement
           /\ ~clientSecret

\* C7: a delivery that finds the order already settled is answered with
\* {received: true}, submits no payment, and the order keeps exactly one
\* settled payment; every delivery that reached the handler without a failed
\* fetch is answered with {received: true}.
C7_RepeatedDeliveryAcknowledged ==
    \A d \in Deliveries :
        LET dl == deliveries[d]
        IN  /\ dl.pc = "over" /\ dl.sawState = "PaymentSettled"
                => /\ dl.response = "received"
                   /\ dl.submitted = 0
                   /\ adminOrder.state = "PaymentSettled"
                   /\ adminOrder.payments = 1
            /\ dl.pc = "over" /\ ~dl.threw /\ dl.response # "bad_request"
                => dl.response = "received"

\* C7 witness: the first delivery settled the order and was acknowledged; the
\* second, begun after that, found the order settled and was acknowledged.
C7_Witness ==
    /\ deliveries[1].response = "received"
    /\ deliveries[1].submitted = 1
    /\ deliveries[2].afterOthers
    /\ deliveries[2].sawState = "PaymentSettled"
    /\ deliveries[2].response = "received"
    /\ adminOrder.payments = 1

\* The remote call of a returned updateQuantity failed (an ErrorResult or a
\* thrown error).
UpdateFailed(tk) ==
    tk.kind = "update" /\ Len(tk.outs) > 0 /\ tk.outs[1] # "ok"

\* C11: when an updateQuantity(L, q) whose remote call failed has returned
\* (called on a snapshot that agreed with the order, on a line L of that
\* order), L is in the snapshot with the quantity it had before the call and
\* the totals are the sums over the items.
C11_FailedUpdateRestoresLine ==
    \A t \in Tasks :
        LET tk == tasks[t]
            before == IndexOfId(AdoptItems(tk.startOrder), tk.lineId)
            i == IndexOfId(cartItems, tk.lineId)
        IN  (/\ ReturnedAlone(tk) /\ UpdateFailed(tk)
             /\ tk.startSynced /\ before > 0)
                => /\ i > 0
                   /\ cartItems[i].quantity = tk.startOrder.lines[before].quantity
                   /\ cartTotal = SumLineTotal(cartItems)
                   /\ cartQuantity = SumQuantity(cartItems)

\* C12: an updateQuantity(lineId, q) with q <= 0 issues remove-line and never
\* adjust-line; while its remote call is awaited the totals are the sums over
\* the remaining items and, the snapshot having mirrored the order when the
\* operation started (each line once), the line is out of the snapshot; once
\* the platform accepted the call the order no longer holds the line.
C12_NonPositiveQuantityRemoves ==
    \A t \in Tasks :
        LET tk == tasks[t]
        IN  (tk.kind = "update" /\ tk.quantity <= 0 /\ tk.alone)
                => /\ tk.calls[1] = "remove"
                   /\ CountOf(tk.calls, "adjust") = 0
                   /\ tk.pc = "upd_remote"
                        => /\ tk.startSynced
                                => IndexOfId(cartItems, tk.lineId) = 0
                           /\ cartTotal = SumLineTotal(cartItems)
                           /\ cartQuantity = SumQuantity(cartItems)
                   /\ (Len(tk.outs) > 0 /\ tk.outs[1] = "ok")
                        => RequestedLine(tk.lineId) = 0

\* C12 witness: updateQuantity(L, 0) was called on a line the snapshot and
\* the order held, and the platform has removed the line.
C12_Witness ==
    \E t \in Tasks :
        LET tk == tasks[t]
        IN  /\ tk.kind = "update" /\ tk.quantity <= 0 /\ tk.alone
            /\ tk.startSynced
            /\ IndexOfId(AdoptItems(tk.startOrder), tk.lineId) > 0
            /\ Len(tk.outs) > 0 /\ tk.outs[1] = "ok"
            /\ Len(tk.startOrder.lines) > Len(serverOrder.lines)

\* C13: when a cart operation that ran with nothing else in flight has
\* returned, the persisted record, when there is one, holds exactly the
\* current cartItems.
C13_PersistedEqualsItems ==
    \A t \in Tasks :
        ReturnedAlone(tasks[t]) /\ storage.present => storage.items = cartItems

\* C14: when two syncCart() calls that both found no active order have both
\* replayed the persisted items (both await the re-fetch), the order holds of
\* no persisted variant more than the persisted record says.
C14_OverlappingSyncsRestoreOnce ==
    (/\ \A t \in Tasks : tasks[t].kind = "sync" /\ tasks[t].pc = "sync_refetch"
     /\ storage.present)
        => \A i \in 1..Len(storage.items) :
              OrderQuantityOf(serverOrder, storage.items[i].variantId)
                  <= storage.items[i].quantity

\* A delivery whose handler is over without a failed request, for an event
\* that was verified against the configured secret.
VerifiedAndHandled(dl) ==
    /\ webhookSecret
    /\ dl.signature = "valid"
    /\ dl.pc = "over"
    /\ ~dl.threw

\* That delivery submitted one manual payment, keyed by the payment intent id
\* when the session has one and by the session id otherwise.
SubmittedPayment(dl) ==
    /\ dl.submitted = 1
    /\ dl.txn = IF session.hasIntent THEN "payment_intent" ELSE "session_id"

C16_ActsOnlyOnVerifiedEvents ==
    \A d \in Deliveries :
        LET dl == deliveries[d]
        IN  /\ dl.signature \in {"missing", "invalid"}
                => dl.pc = "over" /\ dl.response = "bad_request"
            /\ dl.pc # "idle" /\ dl.response # "bad_request"
                => webhookSecret /\ dl.signature = "valid"

\* The payment widget, the polling and the persisted cart are as they were.
PaymentStepUntouched ==
    /\ checkoutStep' = 3
    /\ isCheckoutOpen' = isCheckoutOpen
    /\ coPc' = "idle"
    /\ attempts' = attempts
    /\ UNCHANGED <<elements, paymentElement, clientSecret, storage, cartItems,
                   serverOrder, tasks>>

\* C17: a step in which the confirm of completeOrder / processPayment comes
\* back with requiresRedirect leaves the step at Payment, starts no poll,
\* keeps the payment widget and the client secret, and leaves the persisted
\* cart alone; no error is shown.
C17_RedirectLeavesStateAlone ==
    [][(coPc = "confirm" /\ paymentResult' = "redirect")
          => PaymentStepUntouched /\ ~checkoutError']_vars

\* C17 witness: the confirm came back with requiresRedirect and the checkout
\* is at the Payment step with its widget, no handler in flight and the
\* persisted cart in place.
C17_Witness ==
    /\ paymentResult = "redirect"
    /\ AtStep(3) /\ Idle
    /\ paymentElement /\ clientSecret
    /\ storage.present
    /\ ~paid

\* The step in which the settlement poll uses up its last attempt on an order
\* that is still active and unsettled.
PollExhaustedStep ==
    /\ coPc = "poll"
    /\ attempts # attempts'
    /\ attempts' = MaxAttempts

\* Lemma: the step in which the settlement poll uses up its attempts on an
\* order that stayed active and unsettled drops the payment widget and the
\* client secret, clears the persisted cart and shows no error; the modal
\* moves to step 4 and starts its final sync, the page is left for the
\* confirmation page.
PollExhaustedConfirms ==
    [][PollExhaustedStep
          => /\ ~paymentElement' /\ ~clientSecret' /\ elements' = "none"
             /\ storage' = NoStorage
             /\ ~checkoutError'
             /\ IF impl = "modal"
                THEN checkoutStep' = 4 /\ coPc' = "final_sync"
                ELSE ~isCheckoutOpen' /\ coPc' = "idle"]_vars

\* The modal reached step 4 after ten polls while the paid order
\* is still active in ArrangingPayment.
PollExhaustedInModal ==
    /\ attempts = MaxAttempts
    /\ impl = "modal"
    /\ checkoutStep = 4
    /\ paid
    /\ serverOrder.active /\ serverOrder.state = "ArrangingPayment"

\* C18: once completeOrder / processPayment has returned from a settlement
\* poll that used up its attempts on an active, unsettled order, the checkout
\* is Confirmed with the persisted cart cleared and no error shown.
C18_ConfirmedWithPersistedCartCleared ==
    (Idle /\ paid /\ attempts = MaxAttempts /\ (impl = "modal" => AtStep(4)))
        => storage = NoStorage /\ ~checkoutError

\* A step in which completeOrder / processPayment learns that the confirm
\* failed (success = false), at once or from the payment processor.
ConfirmFailedStep ==
    /\ paymentResult' = "failed"
    /\ \/ coPc = "confirm"
       \/ coPc = "idle" /\ paymentResult # "failed"

\* C19: a step in which the confirm fails leaves the step at Payment with the
\* payment widget as it was, shows the error, starts no poll and releases the
\* processing flag.
C19_FailedConfirmKeepsPaymentStep ==
    [][ConfirmFailedStep
          => /\ PaymentStepUntouched
             /\ checkoutError'
             /\ ~isProcessing'
             /\ paid' = paid]_vars

\* C19 witness: the payment processor declined the payment and the checkout
\* is at the Payment step with its widget mounted, the error shown and the
\* processing flag released.
C19_Witness ==
    /\ paymentResult = "failed"
    /\ AtStep(3) /\ Idle
    /\ paymentElement /\ elements = "secret"
    /\ checkoutError
    /\ ~isProcessing

\* C20: whenever the Shipping step is showing with no handler in flight (in
\* particular after a failed submission) the address element is mounted.
C20_ShippingStepKeepsAddressWidget ==
    AtStep(2) /\ Idle => addressElement

\* C22: when an updateQuantity or removeFromCart whose remote call failed has
\* returned, it has fetched the active order through syncCart after the
\* failed call, and when that fetch was answered with an order the snapshot
\* is the one derived from it.
C22_FailedMutationResyncs ==
    \A t \in Tasks :
        LET tk == tasks[t]
        IN  (/\ ReturnedAlone(tk)
             /\ tk.kind \in {"update", "remove"}
             /\ RemoteFailed(tk))
                => /\ Len(tk.calls) >= 2
                   /\ tk.calls[2] = "get"
                   /\ (tk.outs[2] = "ok" /\ serverOrder.active)
                        => cartItems = AdoptItems(serverOrder)

\* An addToCart with product info that runs alone, called on a snapshot that
\* agreed with the order.
AddOnSyncedCart(tk) ==
    tk.kind = "add" /\ tk.hasInfo /\ tk.alone /\ tk.startSynced

\* The items, as addToCart found them, extended by quantity q of variant v:
\* what the claim says about the line of v in `items`.
ExtendedBy(items, start, v, q) ==
    LET i == IndexOfVariant(start, v)
        n == Len(start)
    IN  IF i > 0
        THEN /\ Len(items) = n
             /\ \A j \in 1..n : j # i => items[j] = start[j]
             /\ items[i].id = start[i].id
             /\ items[i].quantity = start[i].quantity + q
             /\ items[i].lineTotal = start[i].price * (start[i].quantity + q)
        ELSE /\ Len(items) = n + 1
             /\ \A j \in 1..n : items[j] = start[j]
             /\ IsTempId(items[n + 1].id)
             /\ items[n + 1].variantId = v
             /\ items[n + 1].quantity = q
             /\ items[n + 1].lineTotal = items[n + 1].price * q

\* C23: while the first remote add of an addToCart(v, q, info) is awaited the
\* snapshot already holds the optimistic update (q added to the line of v, or
\* a line with a temporary id, quantity q and lineTotal = price x q appended),
\* the totals are the sums over the items and the persisted record holds the
\* items; once the add succeeded and the sync fetched the order, the line of v
\* carries the id the platform assigned and the totals are the optimistic
\* ones.
C23_OptimisticAddThenServerId ==
    \A t \in Tasks :
        LET tk == tasks[t]
            start == AdoptItems(tk.startOrder)
            i == IndexOfVariant(cartItems, tk.variantId)
        IN  /\ (AddOnSyncedCart(tk) /\ tk.pc = "add_first")
                => /\ tk.calls = <<"add">>
                   /\ ExtendedBy(cartItems, start, tk.variantId, tk.quantity)
                   /\ cartTotal = SumLineTotal(cartItems)
                   /\ cartQuantity = SumQuantity(cartItems)
                   /\ storage = [present |-> TRUE, items |-> cartItems]
            /\ (/\ AddOnSyncedCart(tk) /\ tk.pc = "done"
                /\ tk.result = "success" /\ FetchesSucceeded(tk))
                => /\ i > 0
                   /\ ~IsTempId(cartItems[i].id)
                   /\ RequestedLine(cartItems[i].id) > 0
                   /\ cartItems[i].quantity
                        = OrderQuantityOf(tk.startOrder, tk.variantId) + tk.quantity
                   /\ cartTotal = SumLineTotal(start) + UnitPrice * tk.quantity
                   /\ cartQuantity = SumQuantity(start) + tk.quantity

\* C23 witness: addToCart(V1, q, info) on an empty synced cart has returned
\* success and the cart shows the platform's line.
C23_Witness ==
    \E t \in Tasks :
        LET tk == tasks[t]
        IN  /\ AddOnSyncedCart(tk) /\ tk.pc = "done" /\ tk.result = "success"
            /\ FetchesSucceeded(tk)
            /\ ~tk.startOrder.active
            /\ Len(cartItems) = 1
            /\ ~IsTempId(cartItems[1].id)
            /\ cartTotal = UnitPrice * tk.quantity

\* A syncCart that runs alone and whose first fetch found no active order.
SyncFoundNoOrder(tk) ==
    /\ tk.kind = "sync" /\ tk.alone
    /\ ~tk.startOrder.active
    /\ Len(tk.outs) > 0 /\ tk.outs[1] = "ok"

\* The calls of a restoring sync so far: the fetch and one add per item
\* replayed so far.
FetchThenReplays(calls) ==
    /\ calls[1] = "get"
    /\ \A k \in 2..Len(calls) : calls[k] = "replay"

\* C24: a syncCart that found no active order and has items to restore
\* replays them one add at a time (one call awaited at any moment), issues
\* one add for every item whatever the earlier adds answered, then fetches
\* the order again; every accepted add is on the order, and when the fetch
\* returned an order the snapshot and the totals are that order's.
C24_RestoreReplaysEveryItem ==
    \A t \in Tasks :
        LET tk == tasks[t]
            items == ItemsToRestore(storage, cartItems)
            n == Len(items)
        IN  SyncFoundNoOrder(tk) =>
              /\ tk.pc = "sync_replay"
                    => /\ Len(tk.calls) = Len(tk.outs) + 1
                       /\ FetchThenReplays(tk.calls)
                       /\ Len(tk.calls) - 1 + Len(tk.restore) - 1 = n
                       /\ Head(tk.restore) = items[Len(tk.calls) - 1]
              /\ tk.pc = "sync_refetch"
                    => /\ Len(tk.calls) = n + 2
                       /\ FetchThenReplays(SubSeq(tk.calls, 1, n + 1))
                       /\ tk.calls[n + 2] = "get"
                       /\ \A k \in 1..n :
                            tk.outs[k + 1] = "ok"
                                => OrderQuantityOf(serverOrder, items[k].variantId)
                                      = items[k].quantity
              /\ (/\ tk.pc = "done" /\ Len(tk.calls) > 1
                  /\ tk.outs[Len(tk.outs)] = "ok" /\ serverOrder.active)
                    => /\ tk.calls[Len(tk.calls)] = "get"
                       /\ cartItems = AdoptItems(serverOrder)
                       /\ cartTotal = TotalWithTax(serverOrder)
                       /\ cartQuantity = TotalQuantity(serverOrder)

\* C24 witness: a restore of two items whose first add failed and whose
\* second add was accepted has returned with the snapshot of the new order.
C24_Witness ==
    \E t \in Tasks :
        LET tk == tasks[t]
        IN  /\ SyncFoundNoOrder(tk) /\ tk.pc = "done"
            /\ tk.calls = <<"get", "replay", "replay", "get">>
            /\ tk.outs[2] # "ok" /\ tk.outs[3] = "ok" /\ tk.outs[4] = "ok"
            /\ Len(cartItems) = 1
            /\ cartItems = AdoptItems(serverOrder)

\* C25: when a syncCart that found no active order, with an empty snapshot
\* and nothing persisted, has returned, the cart is empty with both totals 0,
\* there is no persisted record, and the fetch was its only remote call: no
\* mutation was issued and there is still no order.
C25_NothingToRestoreEmptiesCart ==
    \A t \in Tasks :
        LET tk == tasks[t]
        IN  (/\ SyncFoundNoOrder(tk) /\ tk.pc = "done"
             /\ tk.startSynced)
                => /\ tk.calls = <<"get">>
                   /\ cartItems = <<>>
                   /\ cartTotal = 0
                   /\ cartQuantity = 0
                   /\ storage = NoStorage
                   /\ ~serverOrder.active

\* C25 witness: a syncCart on a cart with no order, no items and nothing
\* persisted (the first visit) found no order and has returned on the empty
\* cart after its one fetch.
C25_Witness ==
    \E t \in Tasks :
        LET tk == tasks[t]
        IN  /\ SyncFoundNoOrder(tk) /\ tk.pc = "done" /\ tk.startSynced
            /\ tk.calls = <<"get">> /\ tk.outs = <<"ok">>
            /\ cartItems = <<>> /\ cartTotal = 0 /\ cartQuantity = 0
            /\ storage = NoStorage

\* C21: while a cart operation started from a control (add to cart, the
\* quantity buttons, the trash button) is in flight, no second operation of
\* the same kind on the same variant or line is in flight: the control was
\* disabled for the duration of the first.
C21_NoOverlappingSubmission ==
    \A t, u \in Tasks :
        (/\ t # u
         /\ InFlight(tasks[t]) /\ InFlight(tasks[u])
         /\ tasks[t].kind \in {"add", "update", "remove"})
            => ~(/\ tasks[t].kind = tasks[u].kind
                 /\ tasks[t].variantId = tasks[u].variantId
                 /\ tasks[t].lineId = tasks[u].lineId)

\* C26: the step goes from Contact to Shipping only in the step that takes an
\* accepted set-customer answer for a filled form (no error is shown and the
\* address element is created); set-customer is issued only for a filled
\* form; a rejected or failed set-customer leaves the step at Contact with no
\* address element and shows the message of the remote error.
C26_ContactAdvancesOnlyWhenAccepted ==
    [][/\ (checkoutStep = 1 /\ checkoutStep' = 2)
            => /\ coPc = "customer" /\ coPc' = "idle"
               /\ customerFilled
               /\ ~checkoutError'
               /\ addressElement'
       /\ (coPc # "customer" /\ coPc' = "customer") => customerFilled'
       /\ (coPc = "customer" /\ coPc' = "idle" /\ checkoutError')
            => /\ checkoutStep = 1 /\ checkoutStep' = 1
               /\ ~addressElement'
               /\ UNCHANGED <<elements, serverOrder>>
               /\ errorText' \in {"remote", "thrown"}
               /\ ~isProcessing']_vars

\* C26 witness: set-customer was rejected for a filled form: the checkout is
\* at Contact with the remote message shown and no address element.
C26_Witness ==
    /\ AtStep(1) /\ Idle
    /\ customerFilled
    /\ checkoutError /\ errorText = "remote"
    /\ ~addressElement
    /\ ~isProcessing

\* C27: a Shipping submission that finds no complete address (the address
\* element reports incomplete, or there is none) shows the address-incomplete
\* error in that same step, with the step still Shipping, no remote call
\* awaited, the order untouched and the processing flag released; the first
\* remote call of a submission is issued only with an address element.
C27_IncompleteAddressFailsLocally ==
    [][/\ (errorText # "address_incomplete" /\ errorText' = "address_incomplete")
            => /\ AtStep(2) /\ checkoutStep' = 2
               /\ coPc = "idle" /\ coPc' = "idle"
               /\ checkoutError'
               /\ ~isProcessing'
               /\ UNCHANGED <<serverOrder, addressElement, tasks>>
       /\ (coPc # "ship_address" /\ coPc' = "ship_address")
            => addressElement /\ AtStep(2)]_vars

\* C27 witness: the submission found the address element incomplete: the
\* checkout is at Shipping with the address-incomplete error, the element
\* still mounted and nothing in flight.
C27_Witness ==
    /\ AtStep(2) /\ Idle
    /\ errorText = "address_incomplete"
    /\ addressElement
    /\ ~isProcessing
    /\ serverOrder.state = "AddingItems" /\ ~serverOrder.shippingSet

\* The calls of a Shipping submission are issued in the order of the source:
\* set-shipping-address is the first, the address element is destroyed when it
\* is accepted and before the methods are listed, set-shipping-method follows
\* the list, the transition follows either, and createPaymentElement asks for
\* the payment intent only in the step in which the transition was accepted.
ShippingCallsInOrder ==
    [][/\ (coPc # "ship_address" /\ coPc' = "ship_address") => coPc = "idle" /\ AtStep(2)
       /\ (coPc # "ship_methods" /\ coPc' = "ship_methods")
            => coPc = "ship_address" /\ ~addressElement'
       /\ (coPc # "ship_method" /\ coPc' = "ship_method") => coPc = "ship_methods"
       /\ (coPc # "ship_transition" /\ coPc' = "ship_transition")
            => coPc \in {"ship_methods", "ship_method"}
       /\ (~intentPending /\ intentPending')
            => /\ coPc = "ship_transition" /\ coPc' = "idle"
               /\ checkoutStep' = 3 /\ ~checkoutError'
               /\ serverOrder'.state = "ArrangingPayment"
       /\ (coPc = "ship_transition" /\ checkoutError') => UNCHANGED intentPending]_vars

\* C28: a checkout that a successful Shipping submission brought to Payment
\* (step 3, the order in ArrangingPayment) has had set-shipping-method issued
\* on its order between the list of methods and the transition.
C28_SuccessfulSubmissionSetsFirstMethod ==
    (AtStep(3) /\ serverOrder.active /\ serverOrder.state = "ArrangingPayment")
        => serverOrder.shippingSet

\* The settlement poll is bounded: while it runs fewer than maxAttempts
\* fetches were answered, and each answered fetch counts once.
PollBounded ==
    [][coPc = "poll"
          => /\ attempts < MaxAttempts
             /\ attempts' \in {attempts, attempts + 1}]_vars

\* The checkout with the remote answering every fetch of the settlement poll
\* and the sync the modal ends with.
SpecCheckoutAnswering ==
    /\ SpecCheckout
    /\ WF_vars(\E a \in {"ok", "throw"} : PollAnswered(a) /\ UNCHANGED webhookVars)
    /\ WF_vars(\E t \in Tasks : GetActiveOrderAnswered(t) /\ UNCHANGED checkoutVars /\ UNCHANGED webhookVars)

\* With every fetch answered, a settlement poll that started is left.
PollTerminates == (coPc = "poll") ~> (coPc # "poll")

\* A fetch of the settlement poll is answered and the poll goes on.
PollGoesOn == coPc = "poll" /\ coPc' = "poll" /\ attempts' = attempts + 1

\* The fetch just answered showed an active order that is not settled, and
\* fewer than maxAttempts fetches were made.
PollSawOpenOrder ==
    /\ serverOrder.active
    /\ serverOrder.state \notin SettledStates
    /\ attempts' < MaxAttempts

\* C29: a fetch of the settlement poll after which the poll goes on for
\* another interval showed an active order that is not in a settled state:
\* the poll stops at the first fetch that shows no active order or a settled
\* order, and goes on only while fewer than maxAttempts fetches were made.
C29_PollStopsAtFirstCompletion ==
    [][PollGoesOn => PollSawOpenOrder]_vars

\* In the modal the poll goes on only after a fetch that showed an active,
\* unsettled order.
ModalPollStopsAtFirstCompletion ==
    [][(impl = "modal" /\ PollGoesOn) => PollSawOpenOrder]_vars

\* C30: an address element and a payment element are never alive together,
\* whatever the reset of a back-navigation answered and whether or not a
\* widget creation was still in flight when the user navigated.
C30_NeverBothWidgets == ~(addressElement /\ paymentElement)

\* C31: in the AddingItems path of handleCheckoutComplete an answered
\* sub-step (set customer, set shipping address, list or set the shipping
\* method, transition), whatever its answer (accepted, an error result or a
\* transport exception), is followed by the next sub-step or by the
\* submission of the payment record.
C31_PrepareFailureDoesNotAbort ==
    [][\A d \in Deliveries :
          (deliveries[d].pc \in PrepareSteps /\ deliveries'[d] # deliveries[d])
              => deliveries'[d].pc \in PrepareSteps \cup {"payment"}]_vars

\* An error result of a sub-step of the AddingItems path is logged and the
\* handler goes on: only a transport exception ends it.
PrepareErrorResultGoesOn ==
    [][\A d \in Deliveries :
          (/\ deliveries[d].pc \in PrepareSteps
           /\ deliveries'[d] # deliveries[d]
           /\ ~deliveries'[d].threw)
              => deliveries'[d].pc \in PrepareSteps \cup {"payment"}]_vars

\* The calls of handleCheckoutComplete that change the order.
MutatingSteps == PrepareSteps \cup {"payment"}

\* C32: when the session's metadata carries no order code, or no order with
\* that code exists, no delivery ever issues a call that changes the order
\* (none is in flight, no payment was submitted), and a delivery that ended
\* without a rejected signature and without a thrown fetch was answered
\* {received: true}.
C32_NoOrderNoMutation ==
    (~session.hasCode \/ ~adminOrder.exists)
        => \A d \in Deliveries :
              LET dl == deliveries[d]
              IN  /\ dl.pc \notin MutatingSteps
                  /\ dl.submitted = 0
                  /\ dl.sawState = "none"
                  /\ (~session.hasCode /\ dl.pc # "idle") => dl.pc = "over" /\ ~dl.threw
                  /\ (dl.pc = "over" /\ ~dl.threw /\ dl.response # "bad_request")
                        => dl.response = "received"

\* C32 witness: a verified event with an order code for which no order
\* exists was handled and acknowledged, and a second delivery of it as well.
C32_Witness ==
    /\ webhookSecret /\ session.hasCode /\ ~adminOrder.exists
    /\ \A d \in Deliveries :
          /\ deliveries[d].pc = "over"
          /\ deliveries[d].signature = "valid"
          /\ deliveries[d].response = "received"
          /\ deliveries[d].submitted = 0

\* C33: the syncCart that ends a Confirmed checkout whose order was settled
\* and left the session replays no item (issues no add-item call), and once
\* it has returned the cart is empty and the session has no order.
C33_SettledOrderNotReplayed ==
    /\ (coPc = "final_sync" /\ orderSettled) => tasks[1].pc # "sync_replay"
    /\ (AtStep(4) /\ Idle /\ orderSettled /\ ~checkoutError)
          => (serverOrder.active => serverOrder.state = "PaymentSettled")

\* C34: once the payment processor has reported the payment of the checkout
\* as succeeded, no reset of the order to AddingItems is in flight: neither
\* Back nor close issues one during the settlement poll or from the
\* Confirmed step.
C34_NoResetAfterPayment ==
    paid => coPc \notin {"back_reset", "close_reset"}

\* C35: the settlement poll that follows an immediately successful confirm is
\* left only for Confirmed (step 4 in the modal, the confirmation page on the
\* page) and without an error shown, whatever its fetches answered.
C35_PaidCheckoutEndsConfirmed ==
    [][(coPc = "poll" /\ coPc' # "poll")
          => /\ ~checkoutError'
             /\ IF impl = "modal" THEN checkoutStep' = 4 ELSE ~isCheckoutOpen']_vars

\* C36: every payment session that was created carries an order code in its
\* metadata.
C36_SessionCarriesOrderCode ==
    session.pc = "created" => session.hasCode

\* The order a payment session was created for can grow afterwards: the
\* session's amount is that of the cart when the Checkout button was
\* pressed, and the same order (its first line is the first line ever
\* created) now totals more.
SessionOutdated ==
    /\ session.pc = "created" /\ session.hasCode
    /\ serverOrder.active
    /\ serverOrder.lines # <<>>
    /\ serverOrder.lines[1].id = 1
    /\ TotalWithTax(serverOrder) > session.amount

\* C37: an order the reconciler has settled totals what the payment session
\* charged.
C37_SettledOnlyWhenPaidInFull ==
    adminOrder.state = "PaymentSettled" => session.amount = adminOrder.total

\* C38: over all deliveries of the session-completed event, at most one has
\* submitted a manual payment for the order.
C38_AtMostOnePaymentSubmitted ==
    Cardinality({d \in Deliveries : deliveries[d].submitted > 0}) <= 1

\* C39: once a syncCart has confirmed the removal of the last cart line (it
\* took over an active order without lines and nothing was done to the cart
\* since), a syncCart that finds no active order has nothing to restore:
\* neither the persisted record nor the cart holds an item.
C39_RemovedItemNotRestored ==
    (syncSnap.valid /\ syncSnap.adopted /\ syncSnap.lines = <<>> /\ syncSnap.items = <<>>)
        => ItemsToRestore(storage, cartItems) = <<>>

\* C40: while the order of a verified session-completed event exists and is
\* still before its payment, no delivery of the event has been acknowledged
\* with {received: true} without having submitted the payment record.
C40_AcknowledgedOnlyAfterSubmitting ==
    (webhookSecret /\ session.hasCode /\ adminOrder.exists
        /\ NeedsSettlement(adminOrder.state))
        => \A d \in Deliveries :
              (/\ deliveries[d].pc = "over"
               /\ deliveries[d].signature = "valid"
               /\ deliveries[d].response = "received")
                  => deliveries[d].submitted > 0

====
